---- MODULE Spec2Model ----
(***************************************************************************)
(* libgmsys memory management: the buddy page allocator (buddy.hpp), the   *)
(* dlmalloc fine allocator (dlmalloc.hpp) and their reference              *)
(* parameterization (gbamm.cpp), modelled over one word-addressed memory.  *)
(*                                                                         *)
(* Memory is a sparse map from byte addresses of 32-bit words to their     *)
(* values.  A word that is not in the map has never been written by the    *)
(* allocators since it was last owned by the caller: its content is        *)
(* arbitrary, and a read of it yields the value hv that the action drew    *)
(* from HavocWords.  Stores outside the two RAM regions are dropped and    *)
(* recorded in ub.  A word is the value of the int that holds its 32 bits. *)
(***************************************************************************)
EXTENDS Integers, Sequences, FiniteSets, TLC

\* ------------------------------------------------------------------------
\* Bounds of the model
\* ------------------------------------------------------------------------
\* the blocks the caller of the page allocator holds at a time
MaxLive == 3
\* the chunks the caller of malloc holds at a time
MaxChunks == 4
\* the sizes of the static prefix of EWRAM the model is run with, in bytes
\* 18 and 3 page frames for the page allocator, 10 for the fine allocator
EwramSizes == {225280, 256000}
EwramSizesFine == {241664}
EwramSizesSlob == {253952}
EwramSizesBig == {126976}
\* the sizes the caller asks malloc for: one behaviour draws its sizes from
\* one workload, the one of its first request
Workloads == {{0, 8, 60}, {2044, 3000, 5000}, {100, 120}}
MallocSizes == UNION Workloads
\* the calls of malloc and free one behaviour makes
MaxCalls == 5
\* the slob calls among them
MaxSlobCalls == 4
\* the sizes, in words, of the free chunk that splitUseChunk is given, and the
\* sizes of the held chunk that follows it
MaxSplitWords == 24
SplitChunkSizes == {4 * k : k \in 2 .. MaxSplitWords}
SplitNextSizes == {8, 16}
\* the sizes and the number of calls of a caller whose chunks all go to the
\* first fast bin, and the sizes its last call may ask for, which no fast bin
\* serves
BinSizes == {8, 12}
BinLastSizes == {100}
MaxBinCalls == 7
\* the sizes of the free chunks that are arranged in one large bin, and the
\* insertions and removals one behaviour makes
LargeSizes == {512, 520}
MaxLargeCalls == 6
\* the storage the caller passes to __gba_pageinit / __gba_mallocinit
PageRegions == {50331648}
MallocRegions == {50331712}
\* the storage a caller that initialises more than once passes
PageStorages == PageRegions \cup {50331840}
\* the storage the caller passes to __gba_slobinit and the object sizes
SlobRegions == {50332160, 50332224}
SlobSizes == {3, 5, 1012}
\* the sizes the caller asks malloc for while the allocators are set up
BootSizes == {0, 8, 3000, 5000}
\* the arguments the caller passes
OrderInputs == {0, 1, 4}
OrderInputsBig == {0, 4, 5}
LowCounts == {5, 251}
HavocWords == {0, -1}
\* the iterations of list and chunk walks one call is followed for; a call
\* that walks further is one that does not return
MaxWalk == 10
\* ------------------------------------------------------------------------
\* Program constants (gbamm.cpp, __gba_ewram_info)
\* ------------------------------------------------------------------------
maxPageOrder == 6
pageSizeShift == 11
bitmapTotalSize == 32
fastbinMaxOrder == 6
smallbinMaxOrder == 9
nullPageAddress == 0
nullChunkAddress == 0
EwramBase == 33554432
\* the ints of __gba_page_allocator_t and of __gba_malloc_allocator_t
pageAllocatorInts == 15
fineAllocatorInts == 30
EwramPages == 128
Half == 65536
PfnMod == 256

bitmapOrderOffset == <<0, 128, 64, 32, 16, 8>>

\* dlmalloc.hpp, GmOsFineChunkDlMalloc and GmOsChunkNodeSmall
payloadOffset == 4
sizeofChunkNodeSmall == 8
bitPreviousInUse == 1
bitPageAllocated == 2

\* slob.hpp and gbamm.cpp: the frame header is magic, frameType, used and
\* top (the halves of one word), freeHead, previous, next, then the slobs;
\* the allocator object is objectSize, the page allocator reference, full,
\* partial, sfree, and the type word follows it
slobHeaderSize == 24
slobAllocatorInts == 6
slobNormalTypeId == 0
frameTypeNormal == -559038737
magicNormal == -889275714
deftSlobDeallocate == TRUE
sizeofObjectNumberTypeSize == 4
objectNumberTypeSize == 2

VARIABLES
    gba_ewram_size,   \* extern "C" int __gba_ewram_size
    pageAllocator,    \* cached pointer of gbamm.cpp, 0 = nullptr
    fineAllocator,    \* cached pointer of gbamm.cpp, 0 = nullptr
    lpbrk, hpbrk,     \* GmOsPageAllocatorBuddy break points
    bitmap,           \* set of the bit positions that are 1
    mem,              \* the memory words written by the allocators
    topChunk,         \* GmOsFineAllocatorDlMalloc::topChunk
    ub,               \* the kinds of undefined behaviour that have happened
    live,             \* what the caller currently holds
    last,             \* the last call and its result
    first,            \* the first malloc or free call and its result
    calls,            \* the number of malloc and free calls made
    hist,             \* the shape of the sequence of page allocator calls
    fresh0            \* the allocHigh(0) calls made when no other call was

vars == <<gba_ewram_size, pageAllocator, fineAllocator, lpbrk, hpbrk, bitmap,
          mem, topChunk, ub, live, last, first, calls, hist, fresh0>>

\* ------------------------------------------------------------------------
\* Machine arithmetic
\* ------------------------------------------------------------------------
Pow2(k) == 2 ^ k
PageSize == Pow2(pageSizeShift)
U8(x) == x % PfnMod
U16(x) == x % Half
\* 1 << k for the shift counts below 31
Shl1(k) == IF k < 31 THEN Pow2(k) ELSE 0
ClearLow2(x) == x - (x % 4)
XorBit(x, k) == IF (x \div Pow2(k)) % 2 = 0 THEN x + Pow2(k) ELSE x - Pow2(k)

initialPageFrame == U8((gba_ewram_size + PageSize - 1) \div PageSize)
totalPageFrame == U8(EwramPages - initialPageFrame)
firstPageAddress == EwramBase + initialPageFrame * PageSize

\* the words a store of the allocators may go to: EWRAM and the storage of
\* the two allocator objects
IsRam(a) ==
    /\ a % 4 = 0
    /\ \/ (a >= EwramBase /\ a < EwramBase + EwramPages * PageSize)
       \/ \E r \in SlobRegions : a >= r /\ a < r + 4 * slobAllocatorInts
       \/ (pageAllocator # 0 /\ a >= pageAllocator
              /\ a < pageAllocator + 4 * pageAllocatorInts)
       \/ (fineAllocator # 0 /\ a >= fineAllocator
              /\ a < fineAllocator + 4 * fineAllocatorInts)

\* the addresses of the fields of the null chunk and of the null page
IsNullField(a) ==
    a >= nullChunkAddress /\ a < nullChunkAddress + payloadOffset + 2 * sizeofChunkNodeSmall

\* ------------------------------------------------------------------------
\* The machine state that the member functions read and write
\* ------------------------------------------------------------------------
Machine(hv) ==
    [mem |-> mem, lpbrk |-> lpbrk, hpbrk |-> hpbrk, bitmap |-> bitmap,
     topChunk |-> topChunk, ub |-> ub, hv |-> hv, ret |-> 0, fuel |-> MaxWalk]

Rd(s, a) == IF a \in DOMAIN s.mem THEN s.mem[a] ELSE s.hv
\* a store to a field of the null chunk or page goes to the BIOS ROM and is
\* lost; any other store outside RAM, or a misaligned one, went through an
\* arbitrary word
Wr(s, a, v) ==
    IF IsRam(a) THEN [s EXCEPT !.mem = (a :> v) @@ @]
    ELSE IF IsNullField(a) THEN [s EXCEPT !.ub = @ \cup {"null"}]
    ELSE [s EXCEPT !.ub = @ \cup {"wild"}]
Ret(s, v) == [s EXCEPT !.ret = v]
\* A statement that uses the state its predecessor left is written
\* CHOOSE the \in {e(x) : x \in {v}} : TRUE, which is e of the value v.
\* one more iteration of a walk, and the walk that does not end
Tick(s) == [s EXCEPT !.fuel = @ - 1]
Hang(s) == [s EXCEPT !.ub = @ \cup {"hang"}, !.ret = 0]

\* the words [from, to) go to the caller: the allocator no longer knows them
Disown(s, from, to) ==
    [s EXCEPT !.mem = [a \in {b \in DOMAIN s.mem : ~(b >= from /\ b < to)} |-> s.mem[a]]]

\* ------------------------------------------------------------------------
\* buddy.hpp
\* ------------------------------------------------------------------------
freePageListAddr(order) == pageAllocator + 4 + 4 * order

pageFrameFor(page) ==
    LET reversePageFrame == U8((page - firstPageAddress) \div PageSize)
    IN  U8(totalPageFrame - 1 - reversePageFrame)

pageFrameFrom(pfn) ==
    (totalPageFrame - 1 - pfn) * PageSize + firstPageAddress

\* the bit position index * 8 + offset of indexFrom
indexFrom(pfn, order) == bitmapOrderOffset[order + 1] + (pfn \div Pow2(order))

bitmapHas(s, pos) == pos \in s.bitmap
bitmapSet(s, pos) == [s EXCEPT !.bitmap = @ \cup {pos}]
bitmapClear(s, pos) == [s EXCEPT !.bitmap = @ \ {pos}]

\* The link words of the unlinked page stay in memory but no list reaches
\* them any more; the model forgets them, so that a later read of them (by a
\* page that is unlinked without being linked) yields an arbitrary word.
unlinkPage(s, page) ==
    LET next == Rd(s, page)
        prev == Rd(s, page + 4)
    IN  (CHOOSE the \in { Disown(IF next # nullPageAddress THEN Wr(s1, next + 4, prev) ELSE s1,
                     page, page + 8)
              : s1 \in {Wr(s, prev, next)} } : TRUE)

linkPage(s, listHead, page) ==
    (CHOOSE the \in { (CHOOSE the \in { Wr(IF Rd(s2, listHead) # nullPageAddress
                   THEN Wr(s2, Rd(s2, listHead) + 4, page)
                   ELSE s2,
                   listHead, page)
                : s2 \in {Wr(s1, page, Rd(s1, listHead))} } : TRUE)
          : s1 \in {Wr(s, page + 4, listHead)} } : TRUE)

\* one pass of the for loop of shrinkHighPage from the given order: the
\* state after the first block that was shrinked, or s when none was
RECURSIVE shrinkScan(_, _)
shrinkScan(s, order) ==
    IF ~(order < maxPageOrder /\ Pow2(order) <= s.hpbrk) THEN s
    ELSE LET pfn == U8(s.hpbrk - Pow2(order))
             pos == indexFrom(pfn, order)
         IN  IF bitmapHas(s, pos)
             THEN [bitmapClear(unlinkPage(s, pageFrameFrom(pfn)), pos)
                      EXCEPT !.hpbrk = pfn]
             ELSE shrinkScan(s, order + 1)

RECURSIVE shrinkHighPage(_)
shrinkHighPage(s) ==
    (CHOOSE the \in { IF s1.hpbrk # s.hpbrk THEN shrinkHighPage(s1) ELSE s1
          : s1 \in {shrinkScan(s, 0)} } : TRUE)

deftHighBreakShrink == TRUE

\* the merge loop of freeHighPage: <<state, pfnCurrent, order>> at its end
RECURSIVE freeMerge(_, _, _)
freeMerge(s, pfnCurrent, order) ==
    IF ~(order < maxPageOrder - 1) THEN <<s, pfnCurrent, order>>
    ELSE LET pfnBuddy == U8(XorBit(pfnCurrent, order))
             pos == indexFrom(pfnBuddy, order)
         IN  IF bitmapHas(s, pos)
             THEN freeMerge(bitmapClear(unlinkPage(s, pageFrameFrom(pfnBuddy)), pos),
                            IF pfnCurrent < pfnBuddy THEN pfnCurrent ELSE pfnBuddy,
                            order + 1)
             ELSE <<s, pfnCurrent, order>>

\* freeHighPage that takes the null page for a page
freeHighPage_nullpage(s, page, order) ==
    IF order >= maxPageOrder
    THEN [s EXCEPT !.ub = @ \cup {"index"}]
    ELSE (CHOOSE the \in { IF m[2] + Pow2(m[3]) = m[1].hpbrk
               THEN IF deftHighBreakShrink
                    THEN shrinkHighPage([m[1] EXCEPT !.hpbrk = m[2]])
                    ELSE [m[1] EXCEPT !.hpbrk = m[2]]
               ELSE linkPage(bitmapSet(m[1], indexFrom(m[2], m[3])),
                             freePageListAddr(m[3]), pageFrameFrom(m[2]))
               : m \in {freeMerge(s, pageFrameFor(page), order)} } : TRUE)

freeHighPage(s, page, order) ==
    IF page = nullPageAddress THEN s
    ELSE IF order >= maxPageOrder
    THEN \* freePageList[order] and bitmapOrderOffset[order] are out of bounds
         [s EXCEPT !.ub = @ \cup {"index"}]
    ELSE (CHOOSE the \in { IF m[2] + Pow2(m[3]) = m[1].hpbrk
               THEN IF deftHighBreakShrink
                    THEN shrinkHighPage([m[1] EXCEPT !.hpbrk = m[2]])
                    ELSE [m[1] EXCEPT !.hpbrk = m[2]]
               ELSE linkPage(bitmapSet(m[1], indexFrom(m[2], m[3])),
                             freePageListAddr(m[3]), pageFrameFrom(m[2]))
               : m \in {freeMerge(s, pageFrameFor(page), order)} } : TRUE)

\* the scan for an available order: the loop tests freePageList[order]
RECURSIVE availableScan(_, _, _)
availableScan(s, order, availableOrder) ==
    IF availableOrder < maxPageOrder
       /\ Rd(s, freePageListAddr(order)) = nullPageAddress
    THEN availableScan(s, order, availableOrder + 1)
    ELSE availableOrder

\* the do-while that splits the victim down to the order
RECURSIVE splitDown(_, _, _, _)
splitDown(s, pfnVictim, availableOrder, order) ==
    LET ao == availableOrder - 1
        pfnSplit == U8(pfnVictim + Pow2(ao))
    IN  (CHOOSE the \in { IF ao # order THEN splitDown(s1, pfnVictim, ao, order) ELSE s1
              : s1 \in {linkPage(bitmapSet(s, indexFrom(pfnSplit, ao)),
                                 freePageListAddr(ao), pageFrameFrom(pfnSplit))} } : TRUE)

\* the loop that fills the gap between the old hpbrk and the new block
RECURSIVE gapFill(_, _, _)
gapFill(s, pfnSplit, orderSplit) ==
    IF ~(orderSplit > 0) THEN s
    ELSE LET pfnDecrement == Pow2(orderSplit - 1)
         IN  IF pfnSplit < s.hpbrk + pfnDecrement
             THEN gapFill(s, pfnSplit, orderSplit - 1)
             ELSE LET p == U8(pfnSplit - pfnDecrement)
                  IN  gapFill(linkPage(bitmapSet(s, indexFrom(p, orderSplit - 1)),
                                       freePageListAddr(orderSplit - 1),
                                       pageFrameFrom(p)),
                              p, orderSplit - 1)

\* allocateHighPage that refuses the block that ends at the low break
allocateHighPage_strict(s, order) ==
    IF order >= maxPageOrder THEN Ret(s, nullPageAddress)
    ELSE IF Rd(s, freePageListAddr(order)) # nullPageAddress
    THEN LET resultPage == Rd(s, freePageListAddr(order))
             pos == indexFrom(pageFrameFor(resultPage), order)
         IN  Ret(unlinkPage(bitmapClear(s, pos), resultPage), resultPage)
    ELSE LET pfnNew == U8(((s.hpbrk + (Pow2(order) - 1)) \div Pow2(order)) * Pow2(order))
             newHpbrk == U8(pfnNew + Pow2(order))
         IN  IF totalPageFrame <= s.lpbrk + newHpbrk
             THEN Ret(s, nullPageAddress)
             ELSE Ret([gapFill(s, pfnNew, order) EXCEPT !.hpbrk = newHpbrk],
                      pageFrameFrom(pfnNew))

allocateHighPage(s, order) ==
    IF order >= maxPageOrder THEN Ret(s, nullPageAddress)
    ELSE IF Rd(s, freePageListAddr(order)) # nullPageAddress
    THEN LET resultPage == Rd(s, freePageListAddr(order))
             pos == indexFrom(pageFrameFor(resultPage), order)
         IN  Ret(unlinkPage(bitmapClear(s, pos), resultPage), resultPage)
    ELSE (CHOOSE the \in {
             IF availableOrder < maxPageOrder
             THEN LET victimPage == Rd(s, freePageListAddr(availableOrder))
                      pfnVictim == pageFrameFor(victimPage)
                  IN  Ret(splitDown(unlinkPage(bitmapClear(s, indexFrom(pfnVictim,
                                                                       availableOrder)),
                                               victimPage),
                                    pfnVictim, availableOrder, order), victimPage)
             ELSE LET pfnNew == U8(((s.hpbrk + (Pow2(order) - 1)) \div Pow2(order)) * Pow2(order))
                      newHpbrk == U8(pfnNew + Pow2(order))
                  IN  IF totalPageFrame < s.lpbrk + newHpbrk
                      THEN Ret(s, nullPageAddress)
                      ELSE Ret([gapFill(s, pfnNew, order) EXCEPT !.hpbrk = newHpbrk],
                               pageFrameFrom(pfnNew))
             : availableOrder \in {availableScan(s, order, order + 1)} } : TRUE)

\* lowPageBreak giving the address past the last committed low page
lowPageBreak_past(s) ==
    IF s.lpbrk = 0 THEN nullPageAddress
    ELSE s.lpbrk * PageSize + firstPageAddress

lowPageBreak(s) ==
    IF s.lpbrk = 0 THEN nullPageAddress
    ELSE (s.lpbrk - 1) * PageSize + firstPageAddress

\* allocateLowPage without the test against the high break
allocateLowPage_unchecked(s, pageCount) ==
    Ret([s EXCEPT !.lpbrk = U8(s.lpbrk + pageCount)], 1)

\* ret: 1 = true, 0 = false
allocateLowPage(s, pageCount) ==
    LET newLpbrk == U8(s.lpbrk + pageCount)
    IN  IF totalPageFrame < newLpbrk + s.hpbrk THEN Ret(s, 0)
        ELSE Ret([s EXCEPT !.lpbrk = newLpbrk], 1)

freeLowPage(s, numFree) ==
    IF s.lpbrk >= numFree THEN [s EXCEPT !.lpbrk = U8(s.lpbrk - numFree)]
    ELSE [s EXCEPT !.lpbrk = 0]


\* ------------------------------------------------------------------------
\* dlmalloc.hpp: the chunk header.  previousSize is the low half and
\* chunkSize the high half of the word at the chunk address; the payload
\* (and with it the list node) starts payloadOffset bytes after it.
\* ------------------------------------------------------------------------
LoHalf(w) == w % Half
HiHalf(w) == ((w - (w % Half)) \div Half) % Half
PackWord(lo, hi) == lo + Half * (IF hi >= Half \div 2 THEN hi - Half ELSE hi)

previousSizeOf(s, c) == LoHalf(Rd(s, c))
chunkSizeOf(s, c) == HiHalf(Rd(s, c))
SetPreviousSize(s, c, v) == Wr(s, c, PackWord(U16(v), HiHalf(Rd(s, c))))
SetChunkSize(s, c, v) == Wr(s, c, PackWord(LoHalf(Rd(s, c)), U16(v)))

HasBit(x, flag) == (x \div flag) % 2 = 1
previousInUse(s, c) == HasBit(chunkSizeOf(s, c), bitPreviousInUse)
isPageAllocated(s, c) == HasBit(chunkSizeOf(s, c), bitPageAllocated)
setFlag(s, c, flag) ==
    IF HasBit(chunkSizeOf(s, c), flag) THEN SetChunkSize(s, c, chunkSizeOf(s, c))
    ELSE SetChunkSize(s, c, chunkSizeOf(s, c) + flag)
clearFlag(s, c, flag) ==
    IF HasBit(chunkSizeOf(s, c), flag) THEN SetChunkSize(s, c, chunkSizeOf(s, c) - flag)
    ELSE SetChunkSize(s, c, chunkSizeOf(s, c))
sizeOf(s, c) == ClearLow2(chunkSizeOf(s, c))
\* chunkSizeType physicalSize(chunkSizeType sz)
physicalSize(sz) == U16(U16(sz) + payloadOffset)
physicalSizeOf(s, c) == physicalSize(sizeOf(s, c))
nextPhysicalChunk(s, c) == c + physicalSizeOf(s, c)
currentInUse(s, c) == previousInUse(s, nextPhysicalChunk(s, c))
updateSize(s, c, newSize) ==
    SetChunkSize(s, c, (chunkSizeOf(s, c) % 4) + ClearLow2(U16(newSize)))
previousPhysicalChunk(s, c) == c - physicalSize(previousSizeOf(s, c))
isLargeChunkSize(s, c) ==
    sizeOf(s, c) >= Pow2(smallbinMaxOrder) /\ sizeOf(s, c) < Pow2(pageSizeShift)

chunkOf(memory) ==
    IF memory = nullChunkAddress THEN nullChunkAddress ELSE memory - payloadOffset
nodeOf(c) == c + payloadOffset

\* the list nodes: previous, next, previousSize, nextSize
nodePrevious(s, x) == Rd(s, x)
nodeNext(s, x) == Rd(s, x + 4)
nodePreviousSize(s, x) == Rd(s, x + 8)
nodeNextSize(s, x) == Rd(s, x + 12)
SetPrevious(s, x, v) == Wr(s, x, v)
SetNext(s, x, v) == Wr(s, x + 4, v)
SetPreviousSizeLink(s, x, v) == Wr(s, x + 8, v)
SetNextSizeLink(s, x, v) == Wr(s, x + 12, v)

\* GmOsChunkNodeSmall::unlinkChunk
smallUnlinkChunk(s, x) ==
    (CHOOSE the \in { SetPrevious(SetNext(IF nodeNext(s1, x) # nullChunkAddress
                              THEN SetPrevious(s1, nodeNext(s1, x), nodePrevious(s1, x))
                              ELSE s1,
                              x, nullChunkAddress),
                      x, nullChunkAddress)
          : s1 \in {IF nodePrevious(s, x) # nullChunkAddress
                    THEN SetNext(s, nodePrevious(s, x), nodeNext(s, x)) ELSE s} } : TRUE)

\* GmOsChunkNodeSmall::insertSmallAfter
insertSmallAfter(s, x, small) ==
    (CHOOSE the \in { (CHOOSE the \in { SetNext(IF nodeNext(s2, x) # nullChunkAddress
                        THEN SetPrevious(s2, nodeNext(s2, x), small) ELSE s2,
                        x, small)
                : s2 \in {SetNext(s1, small, nodeNext(s1, x))} } : TRUE)
          : s1 \in {SetPrevious(s, small, x)} } : TRUE)

\* GmOsChunkNodeSmall::insertSmallBefore
insertSmallBefore(s, x, small) ==
    (CHOOSE the \in { SetPrevious(IF nodePrevious(s2, x) # nullChunkAddress
                      THEN SetNext(s2, nodePrevious(s2, x), small) ELSE s2,
                      x, small)
          : s2 \in {SetNext(SetPrevious(s, small, nodePrevious(s, x)), small, x)} } : TRUE)

\* GmOsChunkNodeLarge::unlinkChunk
largeUnlinkChunk(s, x) ==
    (CHOOSE the \in { smallUnlinkChunk(SetPreviousSizeLink(SetNextSizeLink(s3, x, nullChunkAddress),
                                               x, nullChunkAddress), x)
          : s3 \in {
              IF nodeNextSize(s, x) = nodeNext(s, x) \/ nodeNext(s, x) = nullChunkAddress
              THEN (CHOOSE the \in { IF nodeNextSize(s1, x) # nullChunkAddress
                         THEN SetPreviousSizeLink(s1, nodeNextSize(s1, x),
                                                  nodePreviousSize(s1, x))
                         ELSE s1
                         : s1 \in {IF nodePreviousSize(s, x) # nullChunkAddress
                                   THEN SetNextSizeLink(s, nodePreviousSize(s, x),
                                                        nodeNextSize(s, x))
                                   ELSE s} } : TRUE)
              ELSE (CHOOSE the \in { SetNextSizeLink(s1, nodeNext(s1, x), nodeNextSize(s1, x))
                         : s1 \in {SetPreviousSizeLink(s, nodeNext(s, x),
                                                       nodePreviousSize(s, x))} } : TRUE) } } : TRUE)

safelyUnlinkChunk(s, c) ==
    IF isLargeChunkSize(s, c) THEN largeUnlinkChunk(s, nodeOf(c))
    ELSE smallUnlinkChunk(s, nodeOf(c))

\* the bins of GmOsFineAllocatorDlMalloc, after pageAllocator& and topChunk
fastAddr(i) == fineAllocator + 8 + 8 * i
smallAddr(j) == fineAllocator + 8 + 8 * fastbinMaxOrder + 8 * j
largeAddr(k) ==
    fineAllocator + 8 + 8 * fastbinMaxOrder
        + 8 * (smallbinMaxOrder - fastbinMaxOrder) + 16 * k
unsortedAddr ==
    fineAllocator + 8 + 8 * fastbinMaxOrder
        + 8 * (smallbinMaxOrder - fastbinMaxOrder)
        + 16 * (pageSizeShift - smallbinMaxOrder)

\* ret: 1 = true, 0 = false
topChunkInitialize(s) ==
    IF s.topChunk # nullChunkAddress THEN Ret(s, 1)
    ELSE (CHOOSE the \in { IF s1.ret = 0 THEN Ret(s1, 0)
               ELSE LET top == lowPageBreak(s1)
                    IN  Ret(setFlag(SetChunkSize([s1 EXCEPT !.topChunk = top], top,
                                                 Pow2(pageSizeShift) - 2 * 2),
                                    top, bitPreviousInUse), 1)
               : s1 \in {allocateLowPage(s, 1)} } : TRUE)

\* increaseTopChunk that takes two low pages at a time
increaseTopChunk_twopages(s) ==
    (CHOOSE the \in { IF s1.ret = 0 THEN Ret(s1, 0)
          ELSE (CHOOSE the \in { IF s2.ret = 0 THEN Ret(s2, 0)
                     ELSE Ret(updateSize(s2, s2.topChunk,
                                         sizeOf(s2, s2.topChunk) + 2 * Pow2(pageSizeShift)), 1)
                     : s2 \in {allocateLowPage(s1, 2)} } : TRUE)
          : s1 \in {topChunkInitialize(s)} } : TRUE)

increaseTopChunk(s) ==
    (CHOOSE the \in { IF s1.ret = 0 THEN Ret(s1, 0)
          ELSE (CHOOSE the \in { IF s2.ret = 0 THEN Ret(s2, 0)
                     ELSE Ret(updateSize(s2, s2.topChunk,
                                         sizeOf(s2, s2.topChunk) + Pow2(pageSizeShift)), 1)
                     : s2 \in {allocateLowPage(s1, 1)} } : TRUE)
          : s1 \in {topChunkInitialize(s)} } : TRUE)

\* shrinkTopChunk that returns no page
shrinkTopChunk_keep(s) ==
    (CHOOSE the \in { IF s1.ret = 0 THEN s1
          ELSE updateSize(s1, s1.topChunk, sizeOf(s1, s1.topChunk))
          : s1 \in {topChunkInitialize(s)} } : TRUE)

shrinkTopChunk(s) ==
    (CHOOSE the \in { IF s1.ret = 0 THEN s1
          ELSE LET chunkSizeAddress == s1.topChunk + 2
                   pfnChunkSize == U8(chunkSizeAddress \div PageSize)
                   pfnLowBreak == U8(lowPageBreak(s1) \div PageSize)
               IN  (CHOOSE the \in { updateSize(s2, s2.topChunk,
                                    sizeOf(s2, s2.topChunk)
                                        - (pfnLowBreak - pfnChunkSize) * PageSize)
                         : s2 \in {freeLowPage(s1, U8(pfnLowBreak - pfnChunkSize))} } : TRUE)
          : s1 \in {topChunkInitialize(s)} } : TRUE)

\* the order loops of arrangeChunk
RECURSIVE arrangeFastOrder(_, _)
arrangeFastOrder(size, fastOrder) ==
    IF Shl1(fastOrder) < sizeofChunkNodeSmall \/ Shl1(fastOrder + 1) < size
    THEN arrangeFastOrder(size, fastOrder + 1) ELSE fastOrder

RECURSIVE arrangeBinOrder(_, _)
arrangeBinOrder(size, order) ==
    IF Shl1(order + 1) < size THEN arrangeBinOrder(size, order + 1) ELSE order

\* the while loop of the small bin branch of arrangeChunk
RECURSIVE arrangeSmallWalk(_, _, _, _, _)
arrangeSmallWalk(s, chunk, size, nodePrev, nodeCurrent) ==
    IF s.fuel = 0 THEN Hang(s)
    ELSE IF nodeCurrent = nullChunkAddress
    THEN insertSmallAfter(s, nodePrev, nodeOf(chunk))
    ELSE IF sizeOf(s, chunkOf(nodeCurrent)) >= size
    THEN insertSmallBefore(s, nodeCurrent, nodeOf(chunk))
    ELSE arrangeSmallWalk(Tick(s), chunk, size, nodeCurrent, nodeNext(s, nodeCurrent))

\* the while loop of the large bin branch of arrangeChunk
RECURSIVE arrangeLargeWalk(_, _, _, _, _)
arrangeLargeWalk(s, chunk, size, nodePrev, nodeCurrent) ==
    LET nodeChunk == nodeOf(chunk)
    IN  IF s.fuel = 0 THEN Hang(s)
        ELSE IF nodeCurrent = nullChunkAddress
        THEN SetNextSizeLink(
                 SetNextSizeLink(
                     SetPreviousSizeLink(insertSmallAfter(s, nodePrev, nodeChunk),
                                         nodeChunk, nodePrev),
                     nodePrev, nodeChunk),
                 nodeChunk, nullChunkAddress)
        ELSE IF sizeOf(s, chunkOf(nodeCurrent)) > size
        THEN SetPreviousSizeLink(
                 SetNextSizeLink(
                     SetPreviousSizeLink(
                         SetNextSizeLink(insertSmallBefore(s, nodeCurrent, nodeChunk),
                                         nodeChunk, nodeCurrent),
                         nodeChunk, nodePrev),
                     nodePrev, nodeChunk),
                 nodeCurrent, nodeChunk)
        ELSE IF sizeOf(s, chunkOf(nodeCurrent)) = size
        THEN SetNextSizeLink(
                 SetPreviousSizeLink(insertSmallAfter(s, nodeCurrent, nodeChunk),
                                     nodeChunk, nullChunkAddress),
                 nodeChunk, nullChunkAddress)
        ELSE arrangeLargeWalk(Tick(s), chunk, size, nodeCurrent,
                              nodeNextSize(s, nodeCurrent))

arrangeChunk(s, chunk) ==
    LET size == sizeOf(s, chunk)
    IN  IF size >= sizeofChunkNodeSmall /\ size < Pow2(fastbinMaxOrder)
        THEN insertSmallAfter(s, fastAddr(arrangeFastOrder(size, 2)), nodeOf(chunk))
        ELSE IF size >= sizeofChunkNodeSmall /\ size < Pow2(smallbinMaxOrder)
        THEN LET head == smallAddr(arrangeBinOrder(size, fastbinMaxOrder) - fastbinMaxOrder)
             IN  arrangeSmallWalk(s, chunk, size, head, nodeNext(s, head))
        ELSE IF size >= sizeofChunkNodeSmall /\ size < Pow2(pageSizeShift)
        THEN LET head == largeAddr(arrangeBinOrder(size, smallbinMaxOrder) - smallbinMaxOrder)
             IN  arrangeLargeWalk(s, chunk, size, head, nodeNextSize(s, head))
        ELSE insertSmallAfter(s, unsortedAddr, nodeOf(chunk))

\* the search of splitUseChunk for a remainder that fits
RECURSIVE remainedSearch(_, _)
remainedSearch(remainedSize, availableSize) ==
    IF physicalSize(remainedSize) > availableSize /\ remainedSize > 0
    THEN remainedSearch(remainedSize \div 2, availableSize)
    ELSE remainedSize

\* remainedSize of splitUseChunk for an availableSize that admits a split
splitRemainedSize(availableSize) ==
    IF availableSize >= physicalSize(Pow2(fastbinMaxOrder))
    THEN U16(0 - 2 * 2)
    ELSE remainedSearch(Pow2(fastbinMaxOrder - 1), availableSize)

splitUseChunk(s, chunk, size) ==
    LET availableSize == ClearLow2(U16(sizeOf(s, chunk) - size))
        remainedSize == splitRemainedSize(availableSize)
        nextChunk == nextPhysicalChunk(s, chunk)
    IN  (CHOOSE the \in { Ret(setFlag(s5, nextPhysicalChunk(s5, chunk), bitPreviousInUse), nodeOf(chunk))
              : s5 \in {
                  IF physicalSize(sizeofChunkNodeSmall) <= availableSize /\ remainedSize > 0
                  THEN (CHOOSE the \in {
                         LET splittedChunk == previousPhysicalChunk(s1, nextChunk)
                         IN  (CHOOSE the \in {
                               LET updatedSize ==
                                     U16(sizeOf(s2, chunk) - physicalSizeOf(s2, splittedChunk))
                               IN  arrangeChunk(
                                       updateSize(SetPreviousSize(s2, splittedChunk,
                                                                  updatedSize),
                                                  chunk, updatedSize),
                                       splittedChunk)
                               : s2 \in {SetChunkSize(s1, splittedChunk, remainedSize)} } : TRUE)
                         : s1 \in {SetPreviousSize(s, nextChunk, remainedSize)} } : TRUE)
                  ELSE s } } : TRUE)

\* the while loop of coalsceChunkBefore; ret is the result chunk
RECURSIVE coalsceBeforeLoop(_, _, _)
coalsceBeforeLoop(s, chunk, result) ==
    IF s.fuel = 0 THEN Hang(s)
    ELSE IF ~previousInUse(s, result)
    THEN (CHOOSE the \in { LET newResult == previousPhysicalChunk(s1, result)
                   newResultSize ==
                       U16(previousSizeOf(s1, result) + physicalSizeOf(s1, result))
               IN  coalsceBeforeLoop(
                       Tick(SetPreviousSize(updateSize(s1, newResult, newResultSize),
                                            chunk, newResultSize)),
                       chunk, newResult)
               : s1 \in {safelyUnlinkChunk(s, result)} } : TRUE)
    ELSE Ret(safelyUnlinkChunk(s, result), result)

coalsceChunkBefore(s, chunk) ==
    IF previousInUse(s, chunk) THEN Ret(s, nullChunkAddress)
    ELSE coalsceBeforeLoop(s, chunk, previousPhysicalChunk(s, chunk))

RECURSIVE coalsceAfterLoop(_, _, _)
coalsceAfterLoop(s, chunk, visitingChunk) ==
    IF s.fuel = 0 THEN Hang(s)
    ELSE IF ~currentInUse(s, visitingChunk)
    THEN (CHOOSE the \in { LET newChunkSize == U16(previousSizeOf(s1, visitingChunk)
                                           + physicalSizeOf(s1, visitingChunk))
                   nextVisitingChunk == nextPhysicalChunk(s1, visitingChunk)
               IN  coalsceAfterLoop(
                       Tick(SetPreviousSize(updateSize(s1, chunk, newChunkSize),
                                            nextVisitingChunk, newChunkSize)),
                       chunk, nextVisitingChunk)
               : s1 \in {safelyUnlinkChunk(s, visitingChunk)} } : TRUE)
    ELSE s

coalsceChunkAfter(s, chunk) ==
    coalsceAfterLoop(s, chunk, nextPhysicalChunk(s, chunk))

\* ret is the coalsced chunk
coalsceChunkUnsorted(s, chunk) ==
    (CHOOSE the \in {
      LET coalscedPrevious == s0.ret
          result == coalscedPrevious
      IN  IF coalscedPrevious # nullChunkAddress
          THEN (CHOOSE the \in { (CHOOSE the \in { (CHOOSE the \in {
                 Ret(coalsceChunkAfter(
                         SetPrevious(
                             SetNext(SetNext(s3, nodeOf(chunkOf(nodePrevious(s3,
                                                                    nodeOf(chunk)))),
                                             nodeOf(result)),
                                     nodeOf(chunk), nullChunkAddress),
                             nodeOf(chunk), nullChunkAddress),
                         result), result)
                 : s3 \in {SetPrevious(s2, nodeOf(result),
                                       nodePrevious(s2, nodeOf(chunk)))} } : TRUE)
                 : s2 \in {SetPrevious(s1, nodeOf(chunkOf(nodeNext(s1, nodeOf(chunk)))),
                                       nodeOf(result))} } : TRUE)
                 : s1 \in {SetNext(s0, nodeOf(result), nodeNext(s0, nodeOf(chunk)))} } : TRUE)
          ELSE Ret(coalsceChunkAfter(s0, chunk), chunk)
      : s0 \in {coalsceChunkBefore(s, chunk)} } : TRUE)

\* the loop that selects the first fast order of allocate
RECURSIVE allocFastOrder(_, _)
allocFastOrder(size, fastOrder) ==
    IF Shl1(fastOrder) < sizeofChunkNodeSmall \/ Shl1(fastOrder) > size
    THEN allocFastOrder(size, fastOrder + 1) ELSE fastOrder

\* (1 << k) > size for the unsigned size: 1 << 31 is the largest unsigned
\* power; a count of 32 is undefined, the ARM register shift gives 0 and the
\* loop ends
ShiftExceeds(k, size) == IF k < 31 THEN Pow2(k) > size ELSE k = 31

\* the loops "for(; (1 << (order + 1)) > size; ++ order);" of allocate
RECURSIVE allocBinOrder(_, _)
allocBinOrder(size, order) ==
    IF ShiftExceeds(order + 1, size) THEN allocBinOrder(size, order + 1) ELSE order

\* the search of the fast bins: the state after the pop, ret = 0 when none
RECURSIVE allocFastSearch(_, _)
allocFastSearch(s, fastOrder) ==
    IF ~(fastOrder < fastbinMaxOrder) THEN Ret(s, 0)
    ELSE IF nodeNext(s, fastAddr(fastOrder)) # nullChunkAddress
    THEN LET chunk == chunkOf(nodeNext(s, fastAddr(fastOrder)))
         IN  (CHOOSE the \in { Ret(setFlag(s1, nextPhysicalChunk(s1, chunk), bitPreviousInUse),
                       nodeOf(chunk))
                   : s1 \in {smallUnlinkChunk(s, nodeOf(chunk))} } : TRUE)
    ELSE allocFastSearch(s, fastOrder + 1)

\* the walk of one small bin, then of the next small bins
RECURSIVE allocSmallSearch(_, _, _, _)
allocSmallSearch(s, size, smallOrder, current) ==
    IF s.fuel = 0 THEN Hang(s)
    ELSE IF ~(smallOrder < smallbinMaxOrder) THEN Ret(s, 0)
    ELSE IF current = nullChunkAddress
    THEN IF smallOrder + 1 < smallbinMaxOrder
         THEN allocSmallSearch(s, size, smallOrder + 1,
                  chunkOf(nodeNext(s, smallAddr(smallOrder + 1 - fastbinMaxOrder))))
         ELSE Ret(s, 0)
    ELSE IF sizeOf(s, current) >= size
    THEN splitUseChunk(smallUnlinkChunk(s, nodeOf(current)), current, size)
    ELSE allocSmallSearch(Tick(s), size, smallOrder,
                          chunkOf(nodeNext(s, nodeOf(current))))

\* the walk of the strips of one large bin, then of the next large bins
RECURSIVE allocLargeSearch(_, _, _, _)
allocLargeSearch(s, size, largeOrder, current) ==
    IF s.fuel = 0 THEN Hang(s)
    ELSE IF ~(largeOrder < pageSizeShift) THEN Ret(s, 0)
    ELSE IF current = nullChunkAddress
    THEN IF largeOrder + 1 < pageSizeShift
         THEN allocLargeSearch(s, size, largeOrder + 1,
                  chunkOf(nodeNextSize(s, largeAddr(largeOrder + 1 - smallbinMaxOrder))))
         ELSE Ret(s, 0)
    ELSE IF sizeOf(s, current) >= size
    THEN IF nodeNext(s, nodeOf(current)) # nodeNextSize(s, nodeOf(current))
         THEN LET nextChunk == chunkOf(nodeNext(s, nodeOf(current)))
              IN  splitUseChunk(largeUnlinkChunk(s, nodeOf(nextChunk)), nextChunk, size)
         ELSE splitUseChunk(largeUnlinkChunk(s, nodeOf(current)), current, size)
    ELSE allocLargeSearch(Tick(s), size, largeOrder,
                          chunkOf(nodeNextSize(s, nodeOf(current))))

\* the pass over the unsorted bin: <<state, selectedChunk>>
RECURSIVE allocUnsortedPass(_, _, _, _)
allocUnsortedPass(s, size, chunk, selectedChunk) ==
    IF s.fuel = 0 THEN <<Hang(s), nullChunkAddress>>
    ELSE IF chunk = nullChunkAddress THEN <<s, selectedChunk>>
    ELSE (CHOOSE the \in {
           LET coalsced == s1.ret
               nextChunk == chunkOf(nodeNext(s1, nodeOf(coalsced)))
           IN  (CHOOSE the \in {
                 IF sizeOf(s2, coalsced) >= size
                 THEN IF selectedChunk = nullChunkAddress
                      THEN allocUnsortedPass(s2, size, nextChunk, coalsced)
                      ELSE IF sizeOf(s2, selectedChunk) > sizeOf(s2, coalsced)
                      THEN allocUnsortedPass(arrangeChunk(s2, selectedChunk), size,
                                             nextChunk, coalsced)
                      ELSE allocUnsortedPass(s2, size, nextChunk, selectedChunk)
                 ELSE allocUnsortedPass(arrangeChunk(s2, coalsced), size,
                                        nextChunk, selectedChunk)
                 : s2 \in {smallUnlinkChunk(s1, nodeOf(coalsced))} } : TRUE)
           : s1 \in {coalsceChunkUnsorted(Tick(s), chunk)} } : TRUE)

\* the split of the top chunk at the end of allocate
allocTopSplit(s, size, physSize) ==
    (CHOOSE the \in {
      LET remainedSize == U16(sizeOf(s1, s1.topChunk) - physSize)
      IN  (CHOOSE the \in {
            LET returnedChunk == s2.topChunk
            IN  (CHOOSE the \in { (CHOOSE the \in { (CHOOSE the \in {
                  Ret(setFlag(s5, s5.topChunk, bitPreviousInUse), nodeOf(returnedChunk))
                  : s5 \in {updateSize(s4, s4.topChunk, remainedSize)} } : TRUE)
                  : s4 \in {SetPreviousSize(s3, s3.topChunk, size)} } : TRUE)
                  : s3 \in {[s2 EXCEPT !.topChunk = nextPhysicalChunk(s2, s2.topChunk)]} } : TRUE)
            : s2 \in {updateSize(s1, s1.topChunk, size)} } : TRUE)
      : s1 \in {IF physSize > sizeOf(s, s.topChunk) THEN increaseTopChunk(s) ELSE s} } : TRUE)

\* the order of the page chunk: the loop "(1 << orderSize) < pfnSize"
RECURSIVE pageOrderFor(_, _)
pageOrderFor(pfnSize, orderSize) ==
    IF Shl1(orderSize) < pfnSize THEN pageOrderFor(pfnSize, orderSize + 1)
    ELSE orderSize

roundUpSize(size) ==
    IF size < sizeofChunkNodeSmall THEN sizeofChunkNodeSmall ELSE ClearLow2(size + 3)

allocPageChunk(s, physSize) ==
    LET pfnSize == U8((physSize + (Pow2(pageSizeShift) - 1)) \div Pow2(pageSizeShift))
        orderSize == pageOrderFor(pfnSize, 0)
    IN  (CHOOSE the \in { LET chunk == s1.ret
              IN  IF chunk = nullPageAddress THEN Ret(s1, 0)
                  ELSE Ret(setFlag(updateSize(s1, chunk, orderSize * 4),
                                   chunk, bitPageAllocated),
                           nodeOf(chunk))
              : s1 \in {allocateHighPage(s, orderSize)} } : TRUE)

\* a shift count of 32 was reached by an order selection loop
ShiftUb(s) == [s EXCEPT !.ub = @ \cup {"shift"}]

\* the chunk level branch of allocate, after topChunkInitialize
allocChunkLevel(s, size, physSize) ==
    LET smallOrder == allocBinOrder(size, fastbinMaxOrder)
        sa == IF size < Pow2(smallbinMaxOrder) /\ smallOrder # fastbinMaxOrder
              THEN ShiftUb(s) ELSE s
        largeOrder == allocBinOrder(size, smallbinMaxOrder)
        sb == IF largeOrder # smallbinMaxOrder THEN ShiftUb(sa) ELSE sa
    IN  (CHOOSE the \in {
          IF f.ret # 0 THEN f
          ELSE (CHOOSE the \in {
            IF m.ret # 0 THEN m
            ELSE (CHOOSE the \in {
              IF l.ret # 0 THEN l
              ELSE (CHOOSE the \in {
                IF u[2] # nullChunkAddress
                THEN splitUseChunk(safelyUnlinkChunk(u[1], u[2]), u[2], size)
                ELSE allocTopSplit(u[1], size, physSize)
                : u \in {IF nodeNext(sb, unsortedAddr) # nullChunkAddress
                         THEN allocUnsortedPass(sb, size,
                                                chunkOf(nodeNext(sb, unsortedAddr)),
                                                nullChunkAddress)
                         ELSE <<sb, nullChunkAddress>>} } : TRUE)
              : l \in {IF largeOrder < pageSizeShift
                       THEN allocLargeSearch(sb, size, largeOrder,
                                chunkOf(nodeNextSize(sb, largeAddr(largeOrder
                                                                      - smallbinMaxOrder))))
                       ELSE Ret(sb, 0)} } : TRUE)
            : m \in {IF size < Pow2(smallbinMaxOrder) /\ smallOrder < smallbinMaxOrder
                     THEN allocSmallSearch(sa, size, smallOrder,
                              chunkOf(nodeNext(sa, smallAddr(smallOrder - fastbinMaxOrder))))
                     ELSE Ret(sa, 0)} } : TRUE)
          : f \in {IF size < Pow2(fastbinMaxOrder)
                   THEN allocFastSearch(s, allocFastOrder(size, 2)) ELSE Ret(s, 0)} } : TRUE)

\* GmOsFineAllocatorDlMalloc::allocate; ret is the pointer, 0 = nullptr.
\* The source names dlInfo::totalPageFrame without calling it; the value
\* of the call is what the comparison is modelled with.
allocate(s, requested) ==
    LET size == roundUpSize(requested)
        physSize == physicalSize(size)
    IN  IF size >= totalPageFrame * Pow2(pageSizeShift) THEN Ret(s, 0)
        ELSE IF physSize > Pow2(pageSizeShift) THEN allocPageChunk(s, physSize)
        ELSE (CHOOSE the \in { IF s1.ret = 0 THEN Ret(s1, 0)
                   ELSE allocChunkLevel(s1, size, physSize)
                   : s1 \in {topChunkInitialize(s)} } : TRUE)

\* GmOsFineAllocatorDlMalloc::deallocate
deallocate(s, memory) ==
    IF memory = 0 THEN s
    ELSE LET chunk == chunkOf(memory)
         IN  IF isPageAllocated(s, chunk)
             THEN freeHighPage(s, chunk, U8(sizeOf(s, chunk) \div 4))
             ELSE
    (CHOOSE the \in {
      IF s0.ret = 0 THEN s0
      ELSE (CHOOSE the \in { (CHOOSE the \in { (CHOOSE the \in {
             IF ~previousInUse(s4, s4.topChunk)
             THEN (CHOOSE the \in {
                    LET coalscedChunk == s5.ret
                    IN  IF coalscedChunk # nullChunkAddress
                        THEN shrinkTopChunk(
                                 [updateSize(s5, coalscedChunk,
                                             sizeOf(s5, coalscedChunk)
                                                 + physicalSizeOf(s5, s5.topChunk))
                                     EXCEPT !.topChunk = coalscedChunk])
                        ELSE s5
                    : s5 \in {coalsceChunkBefore(s4, s4.topChunk)} } : TRUE)
             ELSE s4
             : s4 \in {insertSmallAfter(
                           clearFlag(s2, nextPhysicalChunk(s2, chunk), bitPreviousInUse),
                           unsortedAddr, nodeOf(chunk))} } : TRUE)
             : s2 \in {IF isLargeChunkSize(s1, chunk)
                       THEN SetPreviousSizeLink(
                                SetNextSizeLink(s1, nodeOf(chunk), nullChunkAddress),
                                nodeOf(chunk), nullChunkAddress)
                       ELSE s1} } : TRUE)
             : s1 \in {SetPrevious(SetNext(s0, nodeOf(chunk), nullChunkAddress),
                                   nodeOf(chunk), nullChunkAddress)} } : TRUE)
      : s0 \in {topChunkInitialize(s)} } : TRUE)

\* ------------------------------------------------------------------------
\* slob.hpp
\* ------------------------------------------------------------------------
\* a ^ b and a | b of two half words
BitOf(x, k) == (x \div Pow2(k)) % 2
Xor8(a, b) ==
    ((BitOf(a, 0) + BitOf(b, 0)) % 2) + 2 * ((BitOf(a, 1) + BitOf(b, 1)) % 2)
    + 4 * ((BitOf(a, 2) + BitOf(b, 2)) % 2) + 8 * ((BitOf(a, 3) + BitOf(b, 3)) % 2)
    + 16 * ((BitOf(a, 4) + BitOf(b, 4)) % 2) + 32 * ((BitOf(a, 5) + BitOf(b, 5)) % 2)
    + 64 * ((BitOf(a, 6) + BitOf(b, 6)) % 2) + 128 * ((BitOf(a, 7) + BitOf(b, 7)) % 2)
Xor16(a, b) == Xor8(a % 256, b % 256) + 256 * Xor8(a \div 256, b \div 256)
\* a | b is a ^ b ^ (a & b), and a & b is (a + b - (a ^ b)) / 2
Or16(a, b) == Xor16(a, b) + (a + b - Xor16(a, b)) \div 2
\* a ^ b of two words, half by half
XorWord(a, b) ==
    PackWord(Xor16(LoHalf(a), LoHalf(b)), Xor16(HiHalf(a), HiHalf(b)))

\* a 16 bit load and store at an even address
ReadHalf(s, a) ==
    IF a % 4 = 0 THEN LoHalf(Rd(s, a)) ELSE HiHalf(Rd(s, a - 2))
WriteHalf(s, a, v) ==
    IF a % 4 = 0 THEN Wr(s, a, PackWord(U16(v), HiHalf(Rd(s, a))))
    ELSE Wr(s, a - 2, PackWord(LoHalf(Rd(s, a - 2)), U16(v)))

\* the fields of GmOsFineChunkSlob at frame
frameMagic(s, frame) == Rd(s, frame)
frameTypeOf(s, frame) == Rd(s, frame + 4)
frameUsed(s, frame) == ReadHalf(s, frame + 8)
frameTop(s, frame) == ReadHalf(s, frame + 10)
frameFreeHead(s, frame) == ReadHalf(s, frame + 12)
framePreviousAddr(frame) == frame + 16
frameNextAddr(frame) == frame + 20
frameSlobs(frame) == frame + slobHeaderSize

\* the fields of GmOsFineAllocatorSlob in the storage region
slobObjectSize(s, region) == Rd(s, region)
slobFullAddr(region) == region + 8
slobPartialAddr(region) == region + 12
slobSfreeAddr(region) == region + 16
slobTypeAddr(region) == region + 20

\* GmOsSlobRuntimeNormalSized
nextPageType == frameTypeNormal
isValidFrameType(frameType) == XorWord(frameType, frameTypeNormal) = 0
magicForType(frameType) == magicNormal
pageOrderOf(frameType) == 0
numObjects(s, region) == (PageSize - slobHeaderSize) \div slobObjectSize(s, region)
offsetForObject(s, region, slobPointer, objectNumber) ==
    slobPointer + objectNumber * slobObjectSize(s, region)
\* (2^32 - d) / k for 0 < d <= 2^30, in steps that stay below 2^31
WrappedQuotient(d, k) ==
    3 * (Pow2(30) \div k) + ((Pow2(30) - d) \div k)
    + ((3 * (Pow2(30) % k) + ((Pow2(30) - d) % k)) \div k)
\* the unsigned difference of the addresses over objectSize, cut to
\* objectNumberType
offsetFromObject(s, region, slobPointer, objectPointer) ==
    IF objectPointer >= slobPointer
    THEN U16((objectPointer - slobPointer) \div slobObjectSize(s, region))
    ELSE U16(WrappedQuotient(slobPointer - objectPointer, slobObjectSize(s, region)))

\* thisAddress ^ magicForType(frameType) ^ (used | (top << 13) | (freeHead << 26));
\* the low half of the last operand is used | (top << 13), its high half is
\* (top >> 3) | (freeHead << 10), each cut to 16 bits
expectedMagic(s, frame) ==
    XorWord(XorWord(frame, magicForType(frameTypeOf(s, frame))),
            PackWord(Or16(frameUsed(s, frame), U16(frameTop(s, frame) * Pow2(13))),
                     Or16(frameTop(s, frame) \div 8,
                          U16(frameFreeHead(s, frame) * Pow2(10)))))
synchronizeMagic(s, frame) == Wr(s, frame, expectedMagic(s, frame))
isSlobHeader(s, frame) ==
    /\ isValidFrameType(frameTypeOf(s, frame))
    /\ XorWord(frameMagic(s, frame), expectedMagic(s, frame)) = 0
frameFull(s, region, frame) == numObjects(s, region) = frameUsed(s, frame)
frameEmpty(s, frame) == frameUsed(s, frame) = 0

\* ret is the object, 0 = nullptr
allocateFromFrame(s, region, frame) ==
    IF frameFreeHead(s, frame) = 0
    THEN IF frameFull(s, region, frame) THEN Ret(s, 0)
         ELSE (CHOOSE the \in {
                 Ret(synchronizeMagic(s2, frame),
                     offsetForObject(s, region, frameSlobs(frame), frameTop(s, frame)))
                 : s2 \in {WriteHalf(WriteHalf(s, frame + 10, frameTop(s, frame) + 1),
                                     frame + 8, frameUsed(s, frame) + 1)} } : TRUE)
    ELSE (CHOOSE the \in {
            Ret(synchronizeMagic(s2, frame),
                offsetForObject(s, region, frameSlobs(frame), frameFreeHead(s, frame) - 1))
            : s2 \in {WriteHalf(WriteHalf(s, frame + 12,
                                          ReadHalf(s, offsetForObject(s, region,
                                                         frameSlobs(frame),
                                                         frameFreeHead(s, frame) - 1))),
                                frame + 8, frameUsed(s, frame) + 1)} } : TRUE)

\* ret: 1 = true, 0 = false
deallocateToFrame(s, region, frame, memory) ==
    LET memoryIndex == offsetFromObject(s, region, frameSlobs(frame), memory)
    IN  IF memoryIndex >= numObjects(s, region) THEN Ret(s, 0)
        ELSE IF frameUsed(s, frame) <= 0 THEN Ret(s, 0)
        ELSE (CHOOSE the \in {
                Ret(synchronizeMagic(s2, frame), 1)
                : s2 \in {WriteHalf(WriteHalf(WriteHalf(s, memory, frameFreeHead(s, frame)),
                                              frame + 12, memoryIndex + 1),
                                    frame + 8, frameUsed(s, frame) - 1)} } : TRUE)

removeFromList(s, frame) ==
    (CHOOSE the \in {
       Wr(Wr(s2, framePreviousAddr(frame), 0), frameNextAddr(frame), 0)
       : s2 \in {IF Rd(s, frameNextAddr(frame)) # 0
                 THEN Wr(IF Rd(s, framePreviousAddr(frame)) # 0
                         THEN Wr(s, Rd(s, framePreviousAddr(frame)),
                                 Rd(s, frameNextAddr(frame)))
                         ELSE s,
                         framePreviousAddr(Rd(s, frameNextAddr(frame))),
                         Rd(s, framePreviousAddr(frame)))
                 ELSE IF Rd(s, framePreviousAddr(frame)) # 0
                 THEN Wr(s, Rd(s, framePreviousAddr(frame)), Rd(s, frameNextAddr(frame)))
                 ELSE s} } : TRUE)

insertIntoList(s, frame, list) ==
    (CHOOSE the \in {
       Wr(IF Rd(s2, list) # 0
          THEN Wr(s2, framePreviousAddr(Rd(s2, list)), frameNextAddr(frame))
          ELSE s2,
          list, frame)
       : s2 \in {Wr(Wr(s, framePreviousAddr(frame), list),
                    frameNextAddr(frame), Rd(s, list))} } : TRUE)

\* the first part of GmOsFineAllocatorSlob::allocate: a partial frame is
\* there afterwards, ret = 0 when no page could be had
slobEnsurePartial(s, region) ==
    IF Rd(s, slobPartialAddr(region)) # 0 THEN Ret(s, 1)
    ELSE IF Rd(s, slobSfreeAddr(region)) # 0
    THEN Ret(insertIntoList(removeFromList(s, Rd(s, slobSfreeAddr(region))),
                            Rd(s, slobSfreeAddr(region)), slobPartialAddr(region)), 1)
    ELSE (CHOOSE the \in {
            IF p.ret = nullPageAddress THEN Ret(p, 0)
            ELSE Ret(synchronizeMagic(
                         insertIntoList(
                             WriteHalf(Wr(Wr(p, p.ret + 4, nextPageType), p.ret + 8, 0),
                                       p.ret + 12, 0),
                             p.ret, slobPartialAddr(region)),
                         p.ret), 1)
            : p \in {allocateHighPage(s, pageOrderOf(nextPageType))} } : TRUE)

\* GmOsFineAllocatorSlob::allocate; ret is the object, 0 = nullptr
slobAllocate(s, region) ==
    (CHOOSE the \in {
       IF s1.ret = 0 THEN s1
       ELSE (CHOOSE the \in {
               IF r.ret = 0 THEN r
               ELSE IF frameFull(r, region, Rd(s1, slobPartialAddr(region)))
               THEN Ret(insertIntoList(
                            removeFromList(r, Rd(s1, slobPartialAddr(region))),
                            Rd(s1, slobPartialAddr(region)), slobFullAddr(region)),
                        r.ret)
               ELSE r
               : r \in {allocateFromFrame(s1, region, Rd(s1, slobPartialAddr(region)))}
               } : TRUE)
       : s1 \in {slobEnsurePartial(s, region)} } : TRUE)

\* the walk down the pages from frameAddress to a frame header: the highest
\* page boundary at or below frameAddress that holds a header, and an address
\* below the first page when there is none. A boundary outside the managed
\* pages can hold a header only where a word at its frame type is known.
slobFindFrame(s, frameAddress) ==
    (CHOOSE the \in {
        IF headers = {} THEN firstPageAddress - PageSize
        ELSE CHOOSE a \in headers : \A c \in headers : c <= a
        : headers \in {
            {a \in {firstPageAddress + k * PageSize : k \in 0 .. totalPageFrame - 1}
                    \cup {w - 4 : w \in DOMAIN s.mem} :
                /\ a >= firstPageAddress
                /\ a <= frameAddress
                /\ (a - firstPageAddress) % PageSize = 0
                /\ isSlobHeader(s, a)} } } : TRUE)

\* a demotion that links the higher frame in front of the one in free
slobDemote_keepboth(s, region, demoted) ==
    (CHOOSE the \in {
       IF Rd(s1, slobSfreeAddr(region)) = 0
       THEN insertIntoList(s1, demoted, slobSfreeAddr(region))
       ELSE IF demoted > Rd(s1, slobSfreeAddr(region))
       THEN insertIntoList(s1, demoted, slobSfreeAddr(region))
       ELSE freeHighPage(s1, demoted, pageOrderOf(frameTypeOf(s1, demoted)))
       : s1 \in {removeFromList(s, demoted)} } : TRUE)

\* the demotion of an empty frame when frames are not given back at once
slobDemote(s, region, demoted) ==
    (CHOOSE the \in {
       IF Rd(s1, slobSfreeAddr(region)) = 0
       THEN insertIntoList(s1, demoted, slobSfreeAddr(region))
       ELSE IF demoted > Rd(s1, slobSfreeAddr(region))
       THEN insertIntoList(
                Wr(freeHighPage(s1, Rd(s1, slobSfreeAddr(region)),
                                pageOrderOf(frameTypeOf(s1, Rd(s1, slobSfreeAddr(region))))),
                   slobSfreeAddr(region), 0),
                demoted, slobSfreeAddr(region))
       ELSE freeHighPage(s1, demoted, pageOrderOf(frameTypeOf(s1, demoted)))
       : s1 \in {removeFromList(s, demoted)} } : TRUE)

\* the part of deallocate after the frame was found
slobDeallocateIn(s, region, frame, object) ==
    IF frame < firstPageAddress THEN s
    ELSE (CHOOSE the \in {
            IF d.ret = 0 THEN d
            ELSE IF frameEmpty(d, frame)
            THEN IF deftSlobDeallocate
                 THEN freeHighPage(d, frame, pageOrderOf(frameTypeOf(d, frame)))
                 ELSE slobDemote(d, region, frame)
            ELSE d
            : d \in {deallocateToFrame(s, region, frame, object)} } : TRUE)

\* GmOsFineAllocatorSlob::deallocate
slobDeallocate(s, region, object) ==
    IF object = 0 THEN s
    ELSE LET frameSize == Pow2(pageSizeShift)
             offset == object - firstPageAddress
         IN  (CHOOSE the \in {
                slobDeallocateIn(s, region, frame, object)
                : frame \in {slobFindFrame(s, (offset - (offset % frameSize))
                                               + firstPageAddress)} } : TRUE)

\* ------------------------------------------------------------------------
\* gbamm.cpp
\* ------------------------------------------------------------------------
\* the state after the placement new of pageAllocatorType at region
pageAllocatorCtor(s, region) ==
    [s EXCEPT !.lpbrk = 0, !.hpbrk = 0, !.bitmap = {},
              !.mem = [o \in {region + 4 + 4 * k : k \in 0 .. maxPageOrder - 1}
                          |-> nullPageAddress] @@ @]

gba_pagealloc(s, pageOrder) ==
    IF pageAllocator = 0 THEN Ret(s, 0) ELSE allocateHighPage(s, pageOrder)

gba_pagefree(s, page, pageOrder) ==
    IF pageAllocator = 0 THEN s ELSE freeHighPage(s, page, pageOrder)

\* the bin nodes the constructor of fineAllocatorType sets to null
BinWords(region) ==
    {region + 8 + 4 * k :
        k \in 0 .. (2 * fastbinMaxOrder + 2 * (smallbinMaxOrder - fastbinMaxOrder)
                      + 4 * (pageSizeShift - smallbinMaxOrder) + 2) - 1}

\* the state after the placement new of fineAllocatorType at region
fineAllocatorCtor(s, region) ==
    [s EXCEPT !.topChunk = nullChunkAddress,
              !.mem = [a \in BinWords(region) |-> nullChunkAddress] @@ @]

\* __gba_malloc without the test of the size
gba_malloc_anysize(s, chunkSize) ==
    IF fineAllocator = 0 THEN Ret(s, 0) ELSE allocate(s, chunkSize)

gba_malloc(s, chunkSize) ==
    IF fineAllocator = 0 THEN Ret(s, 0)
    ELSE IF chunkSize <= 0 THEN Ret(s, 0)
    ELSE allocate(s, chunkSize)

gba_free(s, chunk) ==
    IF fineAllocator = 0 THEN s
    ELSE IF chunk = 0 THEN s
    ELSE deallocate(s, chunk)

\* the state after the placement new of slobNormalAllocatorType at region
slobAllocatorCtor(s, region, objectSize) ==
    Wr(Wr(Wr(Wr(Wr(s, region, objectSize), region + 4, pageAllocator),
             slobFullAddr(region), 0), slobPartialAddr(region), 0),
       slobSfreeAddr(region), 0)

\* ret: 1 = TRUE, 0 = FALSE
gba_slobinit(s, region, chunkSize) ==
    IF region = 0 THEN Ret(s, 0)
    ELSE IF pageAllocator = 0 THEN Ret(s, 0)
    ELSE IF chunkSize < sizeofObjectNumberTypeSize THEN Ret(s, 0)
    ELSE Ret(Wr(slobAllocatorCtor(s, region,
                    chunkSize - (chunkSize % objectNumberTypeSize)),
                slobTypeAddr(region), slobNormalTypeId), 1)

gba_sloballoc(s, region) ==
    IF region = 0 THEN Ret(s, 0)
    ELSE IF Rd(s, slobTypeAddr(region)) = slobNormalTypeId THEN slobAllocate(s, region)
    ELSE Ret(s, 0)

gba_slobfree(s, region, memory) ==
    IF region = 0 THEN s
    ELSE IF Rd(s, slobTypeAddr(region)) = slobNormalTypeId
    THEN slobDeallocate(s, region, memory)
    ELSE s

\* ------------------------------------------------------------------------
\* Actions: the calls of the caller
\* ------------------------------------------------------------------------
Commit(s) ==
    /\ mem' = s.mem
    /\ lpbrk' = s.lpbrk
    /\ hpbrk' = s.hpbrk
    /\ bitmap' = s.bitmap
    /\ topChunk' = s.topChunk
    /\ ub' = s.ub

Ptrs == {b.ptr : b \in live}

\* the bookkeeping of the sequence of calls: a page allocator call leaves the
\* fine allocator's untouched and conversely
PageCall(newHist, newFresh0) ==
    /\ hist' = newHist
    /\ fresh0' = newFresh0
    /\ UNCHANGED <<calls, first>>

FineCall ==
    /\ calls < MaxCalls
    /\ calls' = calls + 1
    /\ first' = IF calls = 0 THEN last' ELSE first
    /\ UNCHANGED <<hist, fresh0>>

\* __gba_pageinit that constructs the allocator on every call
PageInit_again(region) ==
    /\ Commit(pageAllocatorCtor(Machine(0), region))
    /\ pageAllocator' = region
    /\ last' = [op |-> "pageinit", arg |-> region, ret |-> 1, dup |-> FALSE]
    /\ PageCall("allocs", 0)
    /\ UNCHANGED <<gba_ewram_size, fineAllocator, live>>

PageInit(region) ==
    /\ IF pageAllocator # 0
       THEN UNCHANGED <<pageAllocator, mem, lpbrk, hpbrk, bitmap, topChunk, ub>>
       ELSE /\ Commit(pageAllocatorCtor(Machine(0), region))
            /\ pageAllocator' = region
    /\ last' = [op |-> "pageinit", arg |-> region, ret |-> 1, dup |-> FALSE]
    /\ PageCall("allocs", 0)
    /\ UNCHANGED <<gba_ewram_size, fineAllocator, live>>

\* the caller may write the block it asked for: [ret, ret + (pageSize << order))
PageAlloc(order) ==
    /\ \E hv \in HavocWords :
         \E r \in {gba_pagealloc(Machine(hv), order)} :
             /\ r.ret # 0 => Cardinality(live) < MaxLive
             /\ Commit(IF r.ret # 0
                       THEN Disown(r, r.ret, r.ret + Pow2(order) * PageSize)
                       ELSE r)
             /\ live' = IF r.ret # 0
                        THEN live \cup {[kind |-> "page", ptr |-> r.ret, arg |-> order]}
                        ELSE live
             /\ last' = [op |-> "pagealloc", arg |-> order, ret |-> r.ret,
                         dup |-> r.ret \in Ptrs]
    /\ PageCall(IF hist = "frees" THEN "mixed" ELSE hist,
                IF order = 0 /\ fresh0 >= 0 /\ fresh0 <= totalPageFrame
                THEN fresh0 + 1 ELSE -1)
    /\ UNCHANGED <<gba_ewram_size, pageAllocator, fineAllocator>>

PageFree(b) ==
    /\ b \in live
    /\ b.kind = "page"
    /\ \E hv \in HavocWords :
         Commit(gba_pagefree(Machine(hv), b.ptr, b.arg))
    /\ live' = live \ {b}
    /\ last' = [op |-> "pagefree", arg |-> b.ptr, ret |-> 0, dup |-> FALSE]
    /\ PageCall(IF hist = "allocs" THEN "frees" ELSE hist, -1)
    /\ UNCHANGED <<gba_ewram_size, pageAllocator, fineAllocator>>

AllocLow(pageCount) ==
    /\ pageAllocator # 0
    /\ fineAllocator = 0
    /\ \E r \in {allocateLowPage(Machine(0), pageCount)} :
           /\ Commit(r)
           /\ last' = [op |-> "alloclow", arg |-> pageCount, ret |-> r.ret, dup |-> FALSE]
    /\ PageCall("other", -1)
    /\ UNCHANGED <<gba_ewram_size, pageAllocator, fineAllocator, live>>

FreeLow(numFree) ==
    /\ pageAllocator # 0
    /\ fineAllocator = 0
    /\ Commit(freeLowPage(Machine(0), numFree))
    /\ last' = [op |-> "freelow", arg |-> numFree, ret |-> 0, dup |-> FALSE]
    /\ PageCall("other", -1)
    /\ UNCHANGED <<gba_ewram_size, pageAllocator, fineAllocator, live>>

\* the caller asks for the low break
LowBreak ==
    /\ pageAllocator # 0
    /\ fineAllocator = 0
    /\ last' = [op |-> "lowbreak", arg |-> 0, ret |-> lowPageBreak(Machine(0)),
                dup |-> FALSE]
    /\ PageCall("other", -1)
    /\ UNCHANGED <<gba_ewram_size, pageAllocator, fineAllocator, live,
                   mem, lpbrk, hpbrk, bitmap, topChunk, ub>>

\* __gba_mallocinit without the test of the page allocator
MallocInit_unordered(region) ==
    /\ IF fineAllocator # 0
       THEN /\ UNCHANGED <<fineAllocator, mem, lpbrk, hpbrk, bitmap, topChunk, ub>>
            /\ last' = [op |-> "mallocinit", arg |-> region, ret |-> 1, dup |-> FALSE]
       ELSE /\ Commit(fineAllocatorCtor(Machine(0), region))
            /\ fineAllocator' = region
            /\ last' = [op |-> "mallocinit", arg |-> region, ret |-> 1, dup |-> FALSE]
    /\ UNCHANGED <<gba_ewram_size, pageAllocator, live, first, calls, hist, fresh0>>

MallocInit(region) ==
    /\ IF fineAllocator # 0
       THEN /\ UNCHANGED <<fineAllocator, mem, lpbrk, hpbrk, bitmap, topChunk, ub>>
            /\ last' = [op |-> "mallocinit", arg |-> region, ret |-> 1, dup |-> FALSE]
       ELSE IF pageAllocator = 0
       THEN /\ UNCHANGED <<fineAllocator, mem, lpbrk, hpbrk, bitmap, topChunk, ub>>
            /\ last' = [op |-> "mallocinit", arg |-> region, ret |-> 0, dup |-> FALSE]
       ELSE /\ Commit(fineAllocatorCtor(Machine(0), region))
            /\ fineAllocator' = region
            /\ last' = [op |-> "mallocinit", arg |-> region, ret |-> 1, dup |-> FALSE]
    /\ UNCHANGED <<gba_ewram_size, pageAllocator, live, first, calls, hist, fresh0>>

\* the caller may write the bytes it asked for: [ret, ret + size)
Malloc(size) ==
    /\ calls < MaxCalls
    /\ calls > 0 => \E w \in Workloads : {first.arg, size} \subseteq w
    /\ \E hv \in HavocWords :
        \E r \in {gba_malloc(Machine(hv), size)} :
            /\ r.ret # 0 => Cardinality(live) < MaxChunks
            /\ Commit(IF r.ret # 0 THEN Disown(r, r.ret, r.ret + size) ELSE r)
            /\ live' = IF r.ret # 0
                       THEN live \cup {[kind |-> "chunk", ptr |-> r.ret, arg |-> size]}
                       ELSE live
            /\ last' = [op |-> "malloc", arg |-> size, ret |-> r.ret,
                        dup |-> r.ret \in Ptrs]
    /\ FineCall
    /\ UNCHANGED <<gba_ewram_size, pageAllocator, fineAllocator>>

Free(b) ==
    /\ b \in live
    /\ b.kind = "chunk"
    /\ \E hv \in HavocWords :
         Commit(gba_free(Machine(hv), b.ptr))
    /\ live' = live \ {b}
    /\ last' = [op |-> "free", arg |-> b.ptr, ret |-> 0, dup |-> FALSE]
    /\ FineCall
    /\ UNCHANGED <<gba_ewram_size, pageAllocator, fineAllocator>>

\* free(nullptr)
FreeNull ==
    /\ \E hv \in HavocWords :
         Commit(gba_free(Machine(hv), 0))
    /\ last' = [op |-> "free", arg |-> 0, ret |-> 0, dup |-> FALSE]
    /\ FineCall
    /\ UNCHANGED <<gba_ewram_size, pageAllocator, fineAllocator, live>>

\* pagefree(nullptr, order)
PageFreeNull(order) ==
    /\ \E hv \in HavocWords :
         Commit(gba_pagefree(Machine(hv), nullPageAddress, order))
    /\ last' = [op |-> "pagefree", arg |-> nullPageAddress, ret |-> 0, dup |-> FALSE]
    /\ PageCall(hist, fresh0)
    /\ UNCHANGED <<gba_ewram_size, pageAllocator, fineAllocator, live>>

\* the instances the caller has initialised, and the objects it holds
SlobInstances == {b \in live : b.kind = "slobinst"}
SlobObjects == {b \in live : b.kind = "slob"}

\* the bookkeeping of a slob call: it counts as a call, and it is a call of
\* the page allocator's client
SlobCall(newHist, newFresh0) ==
    /\ calls < MaxSlobCalls
    /\ calls' = calls + 1
    /\ hist' = newHist
    /\ fresh0' = newFresh0
    /\ UNCHANGED first

\* each storage is initialised once; live remembers the size asked for
SlobInit(region, chunkSize) ==
    /\ \A b \in SlobInstances : b.ptr # region
    /\ \E hv \in HavocWords :
         \E r \in {gba_slobinit(Machine(hv), region, chunkSize)} :
             /\ Commit(r)
             /\ live' = IF r.ret # 0
                        THEN live \cup {[kind |-> "slobinst", ptr |-> region,
                                         arg |-> chunkSize]}
                        ELSE live
             /\ last' = [op |-> "slobinit", arg |-> chunkSize, ret |-> r.ret,
                         dup |-> FALSE]
    /\ SlobCall(hist, fresh0)
    /\ UNCHANGED <<gba_ewram_size, pageAllocator, fineAllocator>>

\* the object record names the instance it came from
SlobAlloc(region) ==
    /\ \E b \in SlobInstances : b.ptr = region
    /\ \E hv \in HavocWords :
         \E r \in {gba_sloballoc(Machine(hv), region)} :
             /\ r.ret # 0 => Cardinality(SlobObjects) < MaxLive
             /\ Commit(r)
             /\ live' = IF r.ret # 0
                        THEN live \cup {[kind |-> "slob", ptr |-> r.ret, arg |-> region]}
                        ELSE live
             /\ last' = [op |-> "sloballoc", arg |-> region, ret |-> r.ret,
                         dup |-> r.ret \in Ptrs]
    /\ SlobCall(hist, -1)
    /\ UNCHANGED <<gba_ewram_size, pageAllocator, fineAllocator>>

\* slobfree(region, b.ptr) for an object the caller holds; the caller gives
\* up the object when it came from this instance, and hist remembers a call
\* with a pointer that did not
SlobFree(region, b) ==
    /\ \E i \in SlobInstances : i.ptr = region
    /\ b \in live
    /\ b.kind = "slob"
    /\ \E hv \in HavocWords :
         Commit(gba_slobfree(Machine(hv), region, b.ptr))
    /\ live' = IF b.arg = region THEN live \ {b} ELSE live
    /\ last' = [op |-> "slobfree", arg |-> b.ptr, ret |-> region, dup |-> FALSE]
    /\ SlobCall(IF b.arg = region THEN hist ELSE "foreign", -1)
    /\ UNCHANGED <<gba_ewram_size, pageAllocator, fineAllocator>>

\* slobfree(region, nullptr)
SlobFreeNull(region) ==
    /\ \E i \in SlobInstances : i.ptr = region
    /\ \E hv \in HavocWords :
         Commit(gba_slobfree(Machine(hv), region, 0))
    /\ last' = [op |-> "slobfree", arg |-> 0, ret |-> region, dup |-> FALSE]
    /\ SlobCall(hist, fresh0)
    /\ UNCHANGED <<gba_ewram_size, pageAllocator, fineAllocator, live>>

Boot ==
    /\ gba_ewram_size \in EwramSizes
    /\ pageAllocator = 0
    /\ fineAllocator = 0
    /\ lpbrk = 0
    /\ hpbrk = 0
    /\ bitmap = {}
    /\ mem = << >>
    /\ topChunk = nullChunkAddress
    /\ ub = {}
    /\ live = {}
    /\ last = [op |-> "boot", arg |-> 0, ret |-> 0, dup |-> FALSE]
    /\ first = last
    /\ calls = 0
    /\ hist = "allocs"
    /\ fresh0 = 0

\* the page allocator alone, constructed in the first region
InitPage ==
    /\ gba_ewram_size \in EwramSizes
    /\ pageAllocator \in PageRegions
    /\ fineAllocator = 0
    /\ lpbrk = 0
    /\ hpbrk = 0
    /\ bitmap = {}
    /\ mem = [o \in {pageAllocator + 4 + 4 * k : k \in 0 .. maxPageOrder - 1}
                 |-> nullPageAddress]
    /\ topChunk = nullChunkAddress
    /\ ub = {}
    /\ live = {}
    /\ last = [op |-> "pageinit", arg |-> pageAllocator, ret |-> 1, dup |-> FALSE]
    /\ first = last
    /\ calls = 0
    /\ hist = "allocs"
    /\ fresh0 = 0

\* no call is modelled after a store through an arbitrary word, or after a
\* call that does not return
Sane == "wild" \notin ub /\ "hang" \notin ub

\* the page allocator stores through a null link only when the link is an
\* arbitrary word: no call is modelled after any store outside RAM
SanePage == ub = {}

NextPage ==
    \/ \E o \in OrderInputs : SanePage /\ PageAlloc(o)
    \/ \E b \in live : SanePage /\ PageFree(b)
    \/ \E n \in LowCounts : SanePage /\ AllocLow(n)
    \/ \E n \in LowCounts : SanePage /\ FreeLow(n)
    \/ SanePage /\ LowBreak

SpecPage == InitPage /\ [][NextPage]_vars

\* ------------------------------------------------------------------------
\* Properties of the page allocator
\* ------------------------------------------------------------------------
PageBlocks == {b \in live : b.kind = "page"}
\* the page frames the allocator accounts to a block the caller holds
BlockFrames(b) ==
    LET p == pageFrameFor(b.ptr) IN p .. (p + Pow2(b.arg) - 1)
FreeListsEmpty ==
    \A o \in 0 .. maxPageOrder - 1 : mem[freePageListAddr(o)] = nullPageAddress

\* C1: after allocHigh calls followed by freeHigh calls of returned blocks,
\* no block the caller still holds has a page frame at or above hpbrk (the
\* allocated and the free blocks tile [0, hpbrk)).
C1_AllocatedBelowBreak ==
    hist \in {"allocs", "frees"} =>
        \A b \in PageBlocks : \A f \in BlockFrames(b) : f < hpbrk

\* C2: the pages [a, a + 2^o * pageSize) of a block that allocHigh(o)
\* returned lie inside [firstPageAddress, firstPageAddress + N * pageSize).
C2_BlockInsideRegion ==
    (last.op = "pagealloc" /\ last.ret # nullPageAddress) =>
        /\ last.ret >= firstPageAddress
        /\ last.ret + Pow2(last.arg) * PageSize
               <= firstPageAddress + totalPageFrame * PageSize

\* C5: lpbrk + hpbrk <= N in every state reachable by allocLow, freeLow,
\* allocHigh and freeHigh.
C5_BreaksWithinRegion == lpbrk + hpbrk <= totalPageFrame

\* the two breaks meet and the allocation that would cross was refused
C5_Witness ==
    /\ lpbrk > 0
    /\ hpbrk > 0
    /\ lpbrk + hpbrk = totalPageFrame
    /\ last.op \in {"pagealloc", "alloclow"}
    /\ last.ret = 0

\* C6: from a fresh page allocator, each of the first N allocHigh(0) calls
\* returns a page that is not null and not one returned before, and the
\* (N+1)-th returns null.
C6_FillOrderZero ==
    /\ (fresh0 >= 1 /\ fresh0 <= totalPageFrame) =>
           /\ last.ret # nullPageAddress
           /\ ~last.dup
           /\ Cardinality(PageBlocks) = fresh0
    /\ fresh0 = totalPageFrame + 1 => last.ret = nullPageAddress

\* N pages are held and the next allocHigh(0) returned null
C6_Witness ==
    /\ fresh0 = totalPageFrame + 1
    /\ last.op = "pagealloc"
    /\ last.ret = nullPageAddress
    /\ Cardinality(PageBlocks) = totalPageFrame

\* C7: after allocHigh calls followed by the freeHigh of every returned
\* block, hpbrk is 0, every free list is empty and every bitmap bit is 0.
C7_AllReleased ==
    (hist = "frees" /\ PageBlocks = {}) =>
        /\ hpbrk = 0
        /\ FreeListsEmpty
        /\ bitmap = {}

\* the pages that the next links reach from a page; the walk ends at a page
\* whose link words the caller holds
RECURSIVE PageListWalk(_, _, _)
PageListWalk(page, fuel, acc) ==
    IF page = nullPageAddress \/ page \in acc \/ fuel = 0 THEN acc
    ELSE IF page \notin DOMAIN mem THEN acc \cup {page}
    ELSE PageListWalk(mem[page], fuel - 1, acc \cup {page})
PageListMembers(order) == PageListWalk(mem[freePageListAddr(order)], MaxWalk, {})

\* C20: for every order o and every block of order o the bitmap bit at
\* bitmapOrderOffset[o] + (pfn >> o) is set if and only if the block is
\* linked in the free list of order o (stated for the states that no store
\* outside RAM led to).
C20_BitmapAgreesWithLists ==
    SanePage =>
    \A o \in 0 .. maxPageOrder - 1 :
        \A pfn \in {f \in 0 .. totalPageFrame - 1 : f % Pow2(o) = 0} :
            bitmapHas(Machine(0), indexFrom(pfn, o))
                <=> pageFrameFrom(pfn) \in PageListMembers(o)

\* C13: allocLow(pages) returns true and adds pages to lpbrk when
\* lpbrk + pages + hpbrk <= N, and otherwise returns false and leaves lpbrk
\* and hpbrk as they were, for every page count of the 8 bit pfn type.
C13_AllocLowExact ==
    [][last'.op = "alloclow" =>
          IF lpbrk + last'.arg + hpbrk <= totalPageFrame
          THEN last'.ret = 1 /\ lpbrk' = lpbrk + last'.arg /\ hpbrk' = hpbrk
          ELSE last'.ret = 0 /\ lpbrk' = lpbrk /\ hpbrk' = hpbrk]_vars

\* C14 as stated: the low break address is firstPageAddress + lpbrk * pageSize
\* when lpbrk > 0 and the null address when lpbrk = 0.
C14_BreakAboveLastPage ==
    last.op = "lowbreak" =>
        last.ret = IF lpbrk = 0 THEN nullPageAddress
                   ELSE firstPageAddress + lpbrk * PageSize

\* C14: the low break address is the address of the last committed low page,
\* the one whose end is firstPageAddress + lpbrk * pageSize, when lpbrk > 0
\* and the null address when lpbrk = 0.
C14_BreakIsLastPage ==
    last.op = "lowbreak" =>
        IF lpbrk = 0 THEN last.ret = nullPageAddress
        ELSE last.ret + PageSize = firstPageAddress + lpbrk * PageSize

\* the break was asked for while low pages were committed
C14_Witness ==
    /\ last.op = "lowbreak"
    /\ lpbrk > 0
    /\ last.ret # nullPageAddress

\* the lowest order above order whose free list is not empty, maxPageOrder
\* when there is none
LowestFreeAbove(order) ==
    IF \E o \in order + 1 .. maxPageOrder - 1 : mem[freePageListAddr(o)] # nullPageAddress
    THEN CHOOSE o \in order + 1 .. maxPageOrder - 1 :
            /\ mem[freePageListAddr(o)] # nullPageAddress
            /\ \A k \in order + 1 .. o - 1 : mem[freePageListAddr(k)] = nullPageAddress
    ELSE maxPageOrder

\* C21: allocHigh(order), called when freeList[order] is empty and a list of
\* a higher order is not, takes the head block of the lowest such order o',
\* leaves hpbrk as it was, returns the victim's own page and leaves the upper
\* half buddy of each order from o' - 1 down to order linked, alone in its
\* list, with its bit set.
C21_SplitFromHigherOrder ==
    [][(/\ SanePage
        /\ last'.op = "pagealloc"
        /\ last'.arg < maxPageOrder
        /\ mem[freePageListAddr(last'.arg)] = nullPageAddress
        /\ LowestFreeAbove(last'.arg) < maxPageOrder)
       => /\ hpbrk' = hpbrk
          /\ last'.ret = mem[freePageListAddr(LowestFreeAbove(last'.arg))]
          /\ \A k \in last'.arg .. LowestFreeAbove(last'.arg) - 1 :
                /\ mem'[freePageListAddr(k)]
                      = pageFrameFrom(pageFrameFor(last'.ret) + Pow2(k))
                /\ indexFrom(pageFrameFor(last'.ret) + Pow2(k), k) \in bitmap']_vars

\* the page frames of the blocks linked in the free lists, each block
\* starting at a multiple of its size
LinkedFrames ==
    UNION {UNION {pageFrameFor(blk) .. pageFrameFor(blk) + Pow2(o) - 1
                  : blk \in {q \in PageListMembers(o) : pageFrameFor(q) % Pow2(o) = 0}}
           : o \in 0 .. maxPageOrder - 1}

\* C22: the page frames that a freeHigh call takes out of [0, hpbrk) are
\* those of the block given back and of blocks that were linked in a free
\* list, each starting at a multiple of its size: the shrink unlinks only
\* blocks that are linked in freeList[o], start at hpbrk - 2^o and end at
\* hpbrk.
C22_ShrinkTakesLinkedBlocks ==
    [][(SanePage /\ last'.op = "pagefree" /\ last'.arg # nullPageAddress)
       => \A b \in live \ live' :
             \A f \in hpbrk' .. hpbrk - 1 :
                 f \in BlockFrames(b) \cup LinkedFrames]_vars

\* the page allocator alone over a region that holds two blocks of the
\* highest order
InitPageBig ==
    /\ gba_ewram_size \in EwramSizesBig
    /\ pageAllocator \in PageRegions
    /\ fineAllocator = 0
    /\ lpbrk = 0
    /\ hpbrk = 0
    /\ bitmap = {}
    /\ mem = [o \in {pageAllocator + 4 + 4 * k : k \in 0 .. maxPageOrder - 1}
                 |-> nullPageAddress]
    /\ topChunk = nullChunkAddress
    /\ ub = {}
    /\ live = {}
    /\ last = [op |-> "pageinit", arg |-> pageAllocator, ret |-> 1, dup |-> FALSE]
    /\ first = last
    /\ calls = 0
    /\ hist = "allocs"
    /\ fresh0 = 0

NextPageBig ==
    \/ \E o \in OrderInputsBig : SanePage /\ PageAlloc(o)
    \/ \E b \in live : SanePage /\ PageFree(b)

SpecPageBig == InitPageBig /\ [][NextPageBig]_vars

\* no two blocks linked in freeList[o] are buddies of each other at order o
NoFreeBuddiesAt(o) ==
    \A blk \in PageListMembers(o) :
        pageFrameFrom(XorBit(pageFrameFor(blk), o)) \notin PageListMembers(o)

\* C23: after every allocHigh and freeHigh call, for every order o, no two
\* blocks whose pfns differ exactly in bit o are both linked in freeList[o]
\* (stated for the states that no store outside RAM led to).
C23_NoFreeBuddies ==
    SanePage => \A o \in 0 .. maxPageOrder - 1 : NoFreeBuddiesAt(o)

\* C24: in every reachable state every block linked in freeList[o] is a page
\* frame whose pfn is a multiple of 2^o, and the block allocHigh(o) returned
\* has a pfn that is a multiple of 2^o; the blocks linked to fill the gap
\* below a newly aligned block are among the linked blocks (stated for the
\* states that no store outside RAM led to).
C24_BlocksAligned ==
    SanePage =>
        /\ \A o \in 0 .. maxPageOrder - 1 : \A blk \in PageListMembers(o) :
               /\ blk = pageFrameFrom(pageFrameFor(blk))
               /\ pageFrameFor(blk) % Pow2(o) = 0
        /\ (last.op = "pagealloc" /\ last.ret # nullPageAddress)
               => pageFrameFor(last.ret) % Pow2(last.arg) = 0

\* C25: in every reachable state and for every order, the blocks of
\* freeList[order] appear in descending address order from the head: the next
\* link of every linked block leads to a block at a lower address (stated for
\* the states that no store outside RAM led to).
C25_ListsDescendByAddress ==
    SanePage =>
        \A o \in 0 .. maxPageOrder - 1 : \A blk \in PageListMembers(o) :
            (blk \in DOMAIN mem /\ mem[blk] # nullPageAddress) => mem[blk] < blk

\* both allocators constructed
InitFine ==
    /\ gba_ewram_size \in EwramSizesFine
    /\ pageAllocator \in PageRegions
    /\ fineAllocator \in MallocRegions
    /\ lpbrk = 0
    /\ hpbrk = 0
    /\ bitmap = {}
    /\ mem = [a \in BinWords(fineAllocator) |-> nullChunkAddress]
               @@ [o \in {pageAllocator + 4 + 4 * k : k \in 0 .. maxPageOrder - 1}
                      |-> nullPageAddress]
    /\ topChunk = nullChunkAddress
    /\ ub = {}
    /\ live = {}
    /\ last = [op |-> "mallocinit", arg |-> fineAllocator, ret |-> 1, dup |-> FALSE]
    /\ first = last
    /\ calls = 0
    /\ hist = "allocs"
    /\ fresh0 = 0

NextFine ==
    \/ \E n \in MallocSizes : Sane /\ Malloc(n)
    \/ \E b \in live : Sane /\ Free(b)

SpecFine == InitFine /\ [][NextFine]_vars

\* the calls from power on, the allocators not yet constructed
NextBoot ==
    \/ \E r \in PageStorages : Sane /\ PageInit(r)
    \/ \E r \in MallocRegions : Sane /\ MallocInit(r)
    \/ \E n \in BootSizes : Sane /\ Malloc(n)
    \/ \E b \in live : Sane /\ Free(b)
    \/ Sane /\ FreeNull

SpecBoot == Boot /\ [][NextBoot]_vars

\* ------------------------------------------------------------------------
\* Properties of the initialisation
\* ------------------------------------------------------------------------
\* C15: malloc(size) returns null and changes neither lpbrk, hpbrk, the top
\* chunk nor the bins when size is 0 or when mallocInit has not constructed
\* the fine allocator.
C15_NullWithoutEffect ==
    [][(last'.op = "malloc" /\ (last'.arg = 0 \/ fineAllocator = 0)) =>
          /\ last'.ret = 0
          /\ UNCHANGED <<lpbrk, hpbrk, topChunk, mem, bitmap>>]_vars

\* malloc(0) was called on a fine allocator that has a top chunk
C15_Witness ==
    /\ last.op = "malloc"
    /\ last.arg = 0
    /\ last.ret = 0
    /\ fineAllocator # 0
    /\ topChunk # nullChunkAddress

\* C16: mallocInit before a successful pageInit returns failure and leaves
\* the fine allocator uninitialised; after pageInit it succeeds.
C16_InitOrder ==
    [][last'.op = "mallocinit" =>
          IF pageAllocator = 0
          THEN last'.ret = 0 /\ fineAllocator' = 0
          ELSE last'.ret = 1 /\ fineAllocator' # 0]_vars

\* mallocInit was refused at power on, malloc having been tried before
C16_Witness ==
    /\ last.op = "mallocinit"
    /\ last.ret = 0
    /\ pageAllocator = 0
    /\ fineAllocator = 0
    /\ calls > 0

\* C17: a pageInit call after a successful one, with any storage, leaves
\* lpbrk, hpbrk, the free lists and the bitmap unchanged and keeps the
\* instance of the first call.
C17_SecondInitKeeps ==
    [][(last'.op = "pageinit" /\ pageAllocator # 0) =>
          /\ last'.ret = 1
          /\ pageAllocator' = pageAllocator
          /\ UNCHANGED <<lpbrk, hpbrk, bitmap, mem>>]_vars

\* pageInit was called with another storage while a block was on a free list
C17_Witness ==
    /\ last.op = "pageinit"
    /\ last.arg # pageAllocator
    /\ pageAllocator # 0
    /\ hpbrk > 0
    /\ bitmap # {}

\* ------------------------------------------------------------------------
\* Properties of the fine allocator
\* ------------------------------------------------------------------------
\* the request is served at chunk level
\* both allocators constructed, no slob instance yet
InitSlob ==
    /\ gba_ewram_size \in EwramSizesSlob
    /\ pageAllocator \in PageRegions
    /\ fineAllocator \in MallocRegions
    /\ lpbrk = 0
    /\ hpbrk = 0
    /\ bitmap = {}
    /\ mem = [a \in BinWords(fineAllocator) |-> nullChunkAddress]
               @@ [o \in {pageAllocator + 4 + 4 * k : k \in 0 .. maxPageOrder - 1}
                      |-> nullPageAddress]
    /\ topChunk = nullChunkAddress
    /\ ub = {}
    /\ live = {}
    /\ last = [op |-> "mallocinit", arg |-> fineAllocator, ret |-> 1, dup |-> FALSE]
    /\ first = last
    /\ calls = 0
    /\ hist = "allocs"
    /\ fresh0 = 0

NextSlob ==
    \/ \E r \in SlobRegions : \E n \in SlobSizes : Sane /\ SlobInit(r, n)
    \/ \E r \in SlobRegions : Sane /\ SlobAlloc(r)
    \/ \E r \in SlobRegions : \E b \in live : Sane /\ SlobFree(r, b)
    \/ \E r \in SlobRegions : Sane /\ SlobFreeNull(r)
    \/ \E o \in OrderInputs : Sane /\ PageFreeNull(o)
    \/ Sane /\ FreeNull

SpecSlob == InitSlob /\ [][NextSlob]_vars

\* the frames linked from a list head through their next words
RECURSIVE SlobListWalk(_, _, _)
SlobListWalk(frame, fuel, acc) ==
    IF frame = 0 \/ frame \in acc \/ fuel = 0 THEN acc
    ELSE IF frameNextAddr(frame) \notin DOMAIN mem THEN acc \cup {frame}
    ELSE SlobListWalk(mem[frameNextAddr(frame)], fuel - 1, acc \cup {frame})
\* the frames of the instance: those of its full and its partial list
SlobFrames(region) ==
    SlobListWalk(mem[slobFullAddr(region)], MaxWalk, {})
        \cup SlobListWalk(mem[slobPartialAddr(region)], MaxWalk, {})
\* the page allocator accounts the page as handed out: it is below the high
\* break and in no block of a free list
PageHandedOut(page) ==
    /\ page >= firstPageAddress
    /\ page < firstPageAddress + totalPageFrame * PageSize
    /\ pageFrameFor(page) < hpbrk
    /\ \A o \in 0 .. maxPageOrder - 1 :
          \A blk \in PageListMembers(o) :
              \/ pageFrameFor(page) < pageFrameFor(blk)
              \/ pageFrameFor(page) >= pageFrameFor(blk) + Pow2(o)
\* the frame boundary at or below an address, and the size the caller asked
\* the instance of an object for
FrameOf(ptr) == ptr - ((ptr - firstPageAddress) % PageSize)
AskedSize(b) == (CHOOSE i \in SlobInstances : i.ptr = b.arg).arg

\* C11: while every slabFree gave back an object of the instance it was
\* called on, every object the caller holds is a slot of at least the
\* objectSize asked for at slabInit, wholly inside the payload area
\* [F + headerSize, F + pageSize) of a frame F that is on a list of its
\* instance and that the page allocator accounts as handed out, and no two
\* objects the caller holds overlap.
C11_ObjectsInOwnedSlots ==
    hist # "foreign" =>
        \A b \in SlobObjects :
            /\ b.ptr >= FrameOf(b.ptr) + slobHeaderSize
            /\ b.ptr + AskedSize(b) <= FrameOf(b.ptr) + PageSize
            /\ FrameOf(b.ptr) \in SlobFrames(b.arg)
            /\ PageHandedOut(FrameOf(b.ptr))
            /\ \A c \in SlobObjects \ {b} :
                  \/ b.ptr + AskedSize(b) <= c.ptr
                  \/ c.ptr + AskedSize(c) <= b.ptr

\* C12: slabFree(instance, ptr) with ptr an object the caller holds from a
\* different instance changes nothing: the memory words (frame headers,
\* frame lists, slots), the break points and the bitmap stay as they were.
C12_ForeignFreeNoOp ==
    [][(/\ last'.op = "slobfree"
        /\ \E b \in SlobObjects : b.ptr = last'.arg /\ b.arg # last'.ret)
       => UNCHANGED <<mem, lpbrk, hpbrk, bitmap>>]_vars

\* C18: free(null), pageFree(null, order) for every order, and
\* slabFree(instance, null) leave the allocator state as it was: the memory
\* words, both break points, the bitmap and the top chunk (free(null) does
\* not initialise the top chunk), and nothing undefined happens.
C18_NullFreeNoOp ==
    [][(last'.op \in {"free", "pagefree", "slobfree"} /\ last'.arg = 0)
       => UNCHANGED <<mem, lpbrk, hpbrk, bitmap, topChunk, ub>>]_vars

\* slabFree(instance, null) after a free(null), with frames handed out, an
\* object held and the top chunk not yet initialised
C18_Witness ==
    /\ last.op = "slobfree"
    /\ last.arg = 0
    /\ first.op = "free"
    /\ first.arg = 0
    /\ hpbrk > 0
    /\ SlobObjects # {}
    /\ topChunk = nullChunkAddress

ChunkLevel(n) == physicalSize(roundUpSize(n)) <= PageSize
BinHeads ==
    {fastAddr(i) : i \in 0 .. fastbinMaxOrder - 1}
        \cup {smallAddr(j) : j \in 0 .. smallbinMaxOrder - fastbinMaxOrder - 1}
        \cup {largeAddr(k) : k \in 0 .. pageSizeShift - smallbinMaxOrder - 1}
        \cup {unsortedAddr}
BinsEmpty == \A h \in BinHeads : mem[h + 4] = nullChunkAddress

\* the nodes that the next links reach from a node
RECURSIVE BinWalk(_, _, _, _)
BinWalk(s, node, fuel, acc) ==
    IF node = nullChunkAddress \/ node \in acc \/ fuel = 0 THEN acc
    ELSE BinWalk(s, Rd(s, node + 4), fuel - 1, acc \cup {node})
BinMembers(s) == [h \in BinHeads |-> BinWalk(s, Rd(s, h + 4), MaxWalk, {})]

\* the calls p = malloc(n); free(p) made from the state s, the caller
\* writing the n bytes in between; ok tells that malloc returned a chunk
MallocFreePair(s, n, hv1, hv2) ==
    LET r == gba_malloc([s EXCEPT !.hv = hv1, !.fuel = MaxWalk, !.ret = 0], n)
        held == [Disown(r, r.ret, r.ret + n) EXCEPT !.hv = hv2, !.fuel = MaxWalk]
    IN  IF r.ret = 0 THEN [ok |-> FALSE, ptr |-> 0, mid |-> r, end |-> r]
        ELSE [ok |-> TRUE, ptr |-> r.ret, mid |-> r, end |-> gba_free(held, r.ret)]

\* C3: a pointer that a chunk level malloc(n) returned designates a chunk
\* whose size is at least n rounded up to a multiple of 4 and at least the
\* size of two links.
C3_ChunkHoldsRequest ==
    (last.op = "malloc" /\ last.ret # 0 /\ ChunkLevel(last.arg)) =>
        sizeOf(Machine(0), chunkOf(last.ret)) >= roundUpSize(last.arg)

\* C19: a chunk level malloc(n) returns, and the loops that select the
\* starting small bin order and the starting large bin order for the
\* rounded size end with an order inside the range of their bins.
C19_OrderLoopsInRange ==
    (last.op = "malloc" /\ last.arg > 0 /\ ChunkLevel(last.arg)) =>
        LET size == roundUpSize(last.arg)
        IN  /\ "hang" \notin ub
            /\ "shift" \notin ub
            /\ size < Pow2(smallbinMaxOrder) =>
                   allocBinOrder(size, fastbinMaxOrder) < smallbinMaxOrder
            /\ allocBinOrder(size, smallbinMaxOrder) < pageSizeShift

\* the bins are empty, the top chunk is too small for n and no low page is left
TopExhausted(n) ==
    /\ ChunkLevel(n)
    /\ topChunk # nullChunkAddress
    /\ BinsEmpty
    /\ physicalSize(roundUpSize(n)) > sizeOf(Machine(0), topChunk)
    /\ lpbrk + 1 + hpbrk > totalPageFrame

\* C4: when no bin holds a chunk, the top chunk is too small and
\* allocLow(1) fails, malloc returns null and leaves top, lpbrk and the
\* bins unchanged.
C4_NullWhenExhausted ==
    [][\A n \in MallocSizes :
          (TopExhausted(n) /\ last'.op = "malloc" /\ last'.arg = n
               /\ calls' = calls + 1)
          => (last'.ret = 0 /\ topChunk' = topChunk /\ lpbrk' = lpbrk
                  /\ BinsEmpty')]_vars

\* C8: for a page level malloc(n) that returns p, the header carries
\* PAGE_ALLOCATED and the buddy order, and after free(p) hpbrk, the heads of
\* the free lists and the bitmap are what they were before the malloc.
C8_PageChunkRoundTrip ==
    Sane =>
    \A n \in MallocSizes : \A hv1 \in HavocWords : \A hv2 \in HavocWords :
        LET pair == MallocFreePair(Machine(0), n, hv1, hv2)
            chunk == chunkOf(pair.ptr)
            pfnSize == U8((physicalSize(roundUpSize(n)) + (PageSize - 1)) \div PageSize)
        IN  (~ChunkLevel(n) /\ pair.ok) =>
                /\ isPageAllocated(pair.mid, chunk)
                /\ sizeOf(pair.mid, chunk) \div 4 = pageOrderFor(pfnSize, 0)
                /\ pair.end.hpbrk = hpbrk
                /\ pair.end.bitmap = bitmap
                /\ \A o \in 0 .. maxPageOrder - 1 :
                       Rd(pair.end, freePageListAddr(o)) = mem[freePageListAddr(o)]

\* the behaviour is p = malloc(n); free(p) on the fresh fine allocator
FirstPair ==
    /\ calls = 2
    /\ first.op = "malloc"
    /\ first.ret # 0
    /\ ChunkLevel(first.arg)
    /\ last.op = "free"
    /\ last.arg = first.ret

\* C9 as stated: p = malloc(n); free(p) on the fresh fine allocator ends
\* with lpbrk = 0.
C9_PairReturnsEveryPage == FirstPair => lpbrk = 0

\* C9: p = malloc(n); free(p) on the fresh fine allocator ends with
\* lpbrk = 1: the top chunk is the freed chunk again and the page that holds
\* its header is kept.
C9_PairKeepsHeaderPage ==
    FirstPair =>
        /\ lpbrk = 1
        /\ topChunk = first.ret - payloadOffset
        /\ sizeOf(Machine(0), topChunk) = PageSize - payloadOffset

\* the pair whose malloc grew the top chunk by a page
C9_Witness ==
    /\ FirstPair
    /\ physicalSize(roundUpSize(first.arg)) > PageSize - payloadOffset
    /\ lpbrk = 1

\* no store outside RAM, no walk without end and no index out of bounds
Defined(s) == s.ub \cap {"wild", "hang", "index"} = {}

\* C10: p = malloc(n); free(p) made twice yields after the second pair the
\* lpbrk, the hpbrk and the chunks of each bin that the first pair left
\* (stated for the pairs that stay within defined behaviour).
C10_PairRepeats ==
    \A n \in MallocSizes : \A hv1 \in HavocWords : \A hv2 \in HavocWords :
        LET one == MallocFreePair(Machine(0), n, hv1, hv2)
            two == MallocFreePair(one.end, n, hv1, hv2)
        IN  (one.ok /\ two.ok /\ Defined(two.end)) =>
                /\ two.end.lpbrk = one.end.lpbrk
                /\ two.end.hpbrk = one.end.hpbrk
                /\ BinMembers(two.end) = BinMembers(one.end)

\* the chunks of the low region in address order, from a chunk up to the top
\* chunk; the walk stops short at a header the allocator does not hold
RECURSIVE ChunkChain(_, _)
ChunkChain(c, fuel) ==
    IF c = topChunk \/ fuel = 0 \/ c \notin DOMAIN mem THEN <<c>>
    ELSE <<c>> \o ChunkChain(nextPhysicalChunk(Machine(0), c), fuel - 1)
LowChain == ChunkChain(firstPageAddress, MaxWalk)

\* the chunks of the low region the caller holds
HeldChunks == {chunkOf(b.ptr) : b \in {x \in live : x.kind = "chunk" /\ ChunkLevel(x.arg)}}

\* C26: after every malloc and free of a caller that frees only what malloc
\* returned, once, the walk of nextPhysical from the base of the low region
\* visits every held chunk and ends at the top chunk; the successor of a
\* free chunk has PREV_IN_USE clear and prevSize equal to the size of the
\* chunk, and the successor of a held chunk has PREV_IN_USE set.
C26_ChainIntegrity ==
    (Sane /\ last.op \in {"malloc", "free"} /\ topChunk # nullChunkAddress) =>
        /\ LowChain[Len(LowChain)] = topChunk
        /\ \A c \in HeldChunks : \E i \in 1 .. Len(LowChain) : LowChain[i] = c
        /\ \A i \in 1 .. Len(LowChain) - 1 :
               IF LowChain[i] \in HeldChunks
               THEN previousInUse(Machine(0), LowChain[i + 1])
               ELSE /\ ~previousInUse(Machine(0), LowChain[i + 1])
                    /\ previousSizeOf(Machine(0), LowChain[i + 1])
                           = sizeOf(Machine(0), LowChain[i])

\* malloc and free of a caller of small chunks
MallocBin(size) ==
    /\ calls < MaxBinCalls
    /\ size \in BinSizes \/ calls = MaxBinCalls - 1
    /\ \E hv \in HavocWords :
        \E r \in {gba_malloc(Machine(hv), size)} :
            /\ r.ret # 0 => Cardinality(live) < MaxChunks
            /\ Commit(IF r.ret # 0 THEN Disown(r, r.ret, r.ret + size) ELSE r)
            /\ live' = IF r.ret # 0
                       THEN live \cup {[kind |-> "chunk", ptr |-> r.ret, arg |-> size]}
                       ELSE live
            /\ last' = [op |-> "malloc", arg |-> size, ret |-> r.ret,
                        dup |-> r.ret \in Ptrs]
    /\ calls' = calls + 1
    /\ first' = IF calls = 0 THEN last' ELSE first
    /\ UNCHANGED <<gba_ewram_size, pageAllocator, fineAllocator, hist, fresh0>>

FreeBin(b) ==
    /\ calls < MaxBinCalls
    /\ b \in live
    /\ b.kind = "chunk"
    /\ \E hv \in HavocWords :
         Commit(gba_free(Machine(hv), b.ptr))
    /\ live' = live \ {b}
    /\ last' = [op |-> "free", arg |-> b.ptr, ret |-> 0, dup |-> FALSE]
    /\ calls' = calls + 1
    /\ first' = IF calls = 0 THEN last' ELSE first
    /\ UNCHANGED <<gba_ewram_size, pageAllocator, fineAllocator, hist, fresh0>>

NextBins ==
    \/ \E n \in BinSizes \cup BinLastSizes : Sane /\ MallocBin(n)
    \/ \E b \in live : Sane /\ FreeBin(b)

SpecBins == InitFine /\ [][NextBins]_vars

\* allocate at the call of splitUseChunk: the free chunk at the base of the
\* low region has been taken off its bin, a held chunk and the top chunk
\* follow it
InitSplit ==
    /\ gba_ewram_size \in EwramSizesFine
    /\ pageAllocator \in PageRegions
    /\ fineAllocator \in MallocRegions
    /\ lpbrk = 1
    /\ hpbrk = 0
    /\ bitmap = {}
    /\ \E s \in SplitChunkSizes : \E n \in SplitNextSizes :
         /\ mem = (firstPageAddress :> PackWord(0, s + bitPreviousInUse))
                    @@ (firstPageAddress + physicalSize(s) :> PackWord(s, n))
                    @@ (firstPageAddress + physicalSize(s) + physicalSize(n)
                          :> PackWord(n, PageSize - physicalSize(s) - physicalSize(n)
                                            - payloadOffset + bitPreviousInUse))
                    @@ [a \in BinWords(fineAllocator) |-> nullChunkAddress]
                    @@ [o \in {pageAllocator + 4 + 4 * k : k \in 0 .. maxPageOrder - 1}
                           |-> nullPageAddress]
         /\ topChunk = firstPageAddress + physicalSize(s) + physicalSize(n)
         /\ live = {[kind |-> "chunk", ptr |-> nodeOf(firstPageAddress + physicalSize(s)),
                     arg |-> n]}
         /\ last = [op |-> "splitinit", arg |-> s, ret |-> firstPageAddress, dup |-> FALSE]
    /\ ub = {}
    /\ first = last
    /\ calls = 0
    /\ hist = "allocs"
    /\ fresh0 = 0

\* splitUseChunk(chunk, size) for the rounded request size
SplitUse(size) ==
    /\ last.op = "splitinit"
    /\ size <= last.arg
    /\ \E hv \in HavocWords :
        \E r \in {splitUseChunk(Machine(hv), last.ret, size)} :
            /\ Commit(r)
            /\ live' = live \cup {[kind |-> "chunk", ptr |-> r.ret, arg |-> size]}
            /\ last' = [op |-> "split", arg |-> size, ret |-> r.ret, dup |-> FALSE]
    /\ UNCHANGED <<gba_ewram_size, pageAllocator, fineAllocator, first, calls, hist, fresh0>>

NextSplit == \E size \in SplitChunkSizes : SplitUse(size)

SpecSplit == InitSplit /\ [][NextSplit]_vars

\* the chunk that splitUseChunk is given, the chunk that follows it at the
\* call, and the allocator's state with a given content of memory
SplitChunk == first.ret
SplitNext == first.ret + physicalSize(first.arg)
MachineAt(m) == [Machine(0) EXCEPT !.mem = m]

\* C27: splitUseChunk applied to an unlinked free chunk C of size s >= r'
\* conserves bytes: afterwards C is unsplit with size s, or size(C) plus the
\* size of the remainder plus the 4 bytes of its header is s, the remainder
\* lies inside the extent of C and ends where C ended; the chunk that
\* followed C keeps its size and its in-use status.
C27_SplitConservesBytes ==
    [][last'.op = "split" =>
         LET after == MachineAt(mem')
             remainder == nextPhysicalChunk(after, SplitChunk)
         IN  /\ \/ sizeOf(after, SplitChunk) = first.arg
                \/ /\ remainder > SplitChunk
                   /\ remainder < SplitNext
                   /\ sizeOf(after, SplitChunk) + physicalSizeOf(after, remainder)
                         = first.arg
                   /\ nextPhysicalChunk(after, remainder) = SplitNext
             /\ sizeOf(after, SplitNext) = sizeOf(Machine(0), SplitNext)
             /\ previousInUse(after, nextPhysicalChunk(Machine(0), SplitNext))
                   = currentInUse(Machine(0), SplitNext)
      ]_vars

\* the bins whose list of next links holds the chunk
BinsOf(c) == {h \in BinHeads : nodeOf(c) \in BinMembers(Machine(0))[h]}

\* C28: after malloc returns, every chunk that is free (its physical
\* successor has PREV_IN_USE clear) and is not the top chunk is linked in
\* exactly one bin; the chunks the unsorted pass took from the unsorted bin
\* are among them.
C28_FreeChunksBinned ==
    (Sane /\ last.op = "malloc" /\ topChunk # nullChunkAddress) =>
        \A i \in 1 .. Len(LowChain) - 1 :
            (LowChain[i + 1] \in DOMAIN mem /\ ~previousInUse(Machine(0), LowChain[i + 1]))
                => Cardinality(BinsOf(LowChain[i])) = 1

\* the free chunks that the bins hold
BinnedChunks == {chunkOf(n) : n \in UNION {BinMembers(Machine(0))[h] : h \in BinHeads}}

\* C29: a chunk level malloc(n) splits the top chunk or grows the low break
\* only when no bin holds a free chunk of size >= r': whenever a fast, small,
\* large or unsorted bin holds a chunk large enough for the rounded request,
\* malloc returns a chunk and leaves the top chunk and lpbrk as they were.
C29_TopSplitOnlyWhenNoBinFits ==
    [][(/\ Sane
        /\ topChunk # nullChunkAddress
        /\ last'.op = "malloc"
        /\ last'.arg > 0
        /\ ChunkLevel(last'.arg)
        /\ \E c \in BinnedChunks : sizeOf(Machine(0), c) >= roundUpSize(last'.arg))
       => /\ last'.ret # 0
          /\ topChunk' = topChunk
          /\ lpbrk' = lpbrk]_vars

\* C30: in every reachable state all chunks linked in the same fast bin
\* have the same size (stated for the chunks whose header the allocator
\* holds).
C30_FastBinOneSize ==
    Sane =>
        \A i \in 0 .. fastbinMaxOrder - 1 :
            \A n1, n2 \in BinMembers(Machine(0))[fastAddr(i)] :
                (chunkOf(n1) \in DOMAIN mem /\ chunkOf(n2) \in DOMAIN mem)
                    => sizeOf(Machine(0), chunkOf(n1)) = sizeOf(Machine(0), chunkOf(n2))

\* ------------------------------------------------------------------------
\* One large bin under arrangeChunk and unlinkChunk
\* ------------------------------------------------------------------------
\* three free chunks of large size, taken off the unsorted bin and not yet
\* arranged, each followed by a held chunk; the top chunk ends the page
InitLarge ==
    /\ gba_ewram_size \in EwramSizesFine
    /\ pageAllocator \in PageRegions
    /\ fineAllocator \in MallocRegions
    /\ lpbrk = 1
    /\ hpbrk = 0
    /\ bitmap = {}
    /\ \E a \in LargeSizes : \E b \in LargeSizes : \E c \in LargeSizes :
         LET f1 == firstPageAddress
             h1 == f1 + physicalSize(a)
             f2 == h1 + physicalSize(sizeofChunkNodeSmall)
             h2 == f2 + physicalSize(b)
             f3 == h2 + physicalSize(sizeofChunkNodeSmall)
             h3 == f3 + physicalSize(c)
             top == h3 + physicalSize(sizeofChunkNodeSmall)
         IN  /\ mem = (f1 :> PackWord(0, a + bitPreviousInUse))
                        @@ (h1 :> PackWord(a, sizeofChunkNodeSmall))
                        @@ (f2 :> PackWord(sizeofChunkNodeSmall, b + bitPreviousInUse))
                        @@ (h2 :> PackWord(b, sizeofChunkNodeSmall))
                        @@ (f3 :> PackWord(sizeofChunkNodeSmall, c + bitPreviousInUse))
                        @@ (h3 :> PackWord(c, sizeofChunkNodeSmall))
                        @@ (top :> PackWord(sizeofChunkNodeSmall,
                                            firstPageAddress + PageSize - top
                                                - payloadOffset + bitPreviousInUse))
                        @@ [w \in {f + 4 * k : f \in {f1, f2, f3}, k \in 1 .. 4}
                               |-> nullChunkAddress]
                        @@ [w \in BinWords(fineAllocator) |-> nullChunkAddress]
                        @@ [o \in {pageAllocator + 4 + 4 * k : k \in 0 .. maxPageOrder - 1}
                               |-> nullPageAddress]
             /\ topChunk = top
             /\ live = {[kind |-> "chunk", ptr |-> nodeOf(h), arg |-> sizeofChunkNodeSmall]
                           : h \in {h1, h2, h3}}
    /\ ub = {}
    /\ last = [op |-> "largeinit", arg |-> firstPageAddress, ret |-> 0, dup |-> FALSE]
    /\ first = last
    /\ calls = 0
    /\ hist = "allocs"
    /\ fresh0 = 0

\* the free chunks of the page and those of them that are linked in a bin
LargeChunks == {LowChain[i] : i \in 1 .. Len(LowChain) - 1} \ HeldChunks
LinkedChunks == {b.ptr : b \in {x \in live : x.kind = "linked"}}

\* arrangeChunk(chunk) for a free chunk that is in no bin
LargeArrange(chunk) ==
    /\ calls < MaxLargeCalls
    /\ chunk \in LargeChunks \ LinkedChunks
    /\ \E hv \in HavocWords : Commit(arrangeChunk(Machine(hv), chunk))
    /\ live' = live \cup {[kind |-> "linked", ptr |-> chunk,
                           arg |-> sizeOf(Machine(0), chunk)]}
    /\ last' = [op |-> "arrange", arg |-> chunk, ret |-> 0, dup |-> FALSE]
    /\ calls' = calls + 1
    /\ UNCHANGED <<gba_ewram_size, pageAllocator, fineAllocator, first, hist, fresh0>>

\* safelyUnlinkChunk(chunk) for a chunk that is linked in its bin
LargeUnlink(chunk) ==
    /\ calls < MaxLargeCalls
    /\ chunk \in LinkedChunks
    /\ \E hv \in HavocWords : Commit(safelyUnlinkChunk(Machine(hv), chunk))
    /\ live' = {x \in live : ~(x.kind = "linked" /\ x.ptr = chunk)}
    /\ last' = [op |-> "unlink", arg |-> chunk, ret |-> 0, dup |-> FALSE]
    /\ calls' = calls + 1
    /\ UNCHANGED <<gba_ewram_size, pageAllocator, fineAllocator, first, hist, fresh0>>

NextLarge ==
    \/ \E c \in LargeChunks : Sane /\ LargeArrange(c)
    \/ \E c \in LinkedChunks : Sane /\ LargeUnlink(c)

SpecLarge == InitLarge /\ [][NextLarge]_vars

\* the nodes that a link field (the word at offset off of a node) reaches
\* from a node, in order
RECURSIVE NodeSeq(_, _, _)
NodeSeq(node, off, fuel) ==
    IF node = nullChunkAddress \/ fuel = 0 THEN <<>>
    ELSE <<node>> \o NodeSeq(Rd(Machine(0), node + off), off, fuel - 1)
LargeNextChain(k) == NodeSeq(nodeNext(Machine(0), largeAddr(k)), 4, MaxWalk)
LargeSizeChain(k) == NodeSeq(nodeNextSize(Machine(0), largeAddr(k)), 12, MaxWalk)
\* the nodes of a chain whose size differs from the size of their predecessor
RECURSIVE StripHeads(_, _)
StripHeads(chain, i) ==
    IF i > Len(chain) THEN <<>>
    ELSE (IF i = 1 \/ sizeOf(Machine(0), chunkOf(chain[i]))
                         # sizeOf(Machine(0), chunkOf(chain[i - 1]))
          THEN <<chain[i]>> ELSE <<>>) \o StripHeads(chain, i + 1)

\* C31: after any sequence of arrangeChunk and unlinkChunk on a large bin
\* the next chain of the bin is ordered by non-decreasing size, so that the
\* chunks of one size are contiguous, and the size chain links exactly the
\* first chunks of the sizes, in strictly ascending size.
C31_LargeBinOrdered ==
    Sane =>
        \A k \in 0 .. pageSizeShift - smallbinMaxOrder - 1 :
            /\ \A i \in 1 .. Len(LargeNextChain(k)) - 1 :
                   sizeOf(Machine(0), chunkOf(LargeNextChain(k)[i]))
                       <= sizeOf(Machine(0), chunkOf(LargeNextChain(k)[i + 1]))
            /\ LargeSizeChain(k) = StripHeads(LargeNextChain(k), 1)

\* C32: whenever the top chunk is initialised it ends at the low break,
\* address(top) + size(top) + the bytes of its header = firstPageAddress
\* + lpbrk * pageSize, after every malloc and every free, the calls on which
\* the top chunk cannot grow included.
C32_TopEndsAtLowBreak ==
    [][(Sane /\ last'.op \in {"malloc", "free"} /\ topChunk' # nullChunkAddress) =>
           /\ topChunk' \in DOMAIN mem'
           /\ topChunk' + sizeOf(MachineAt(mem'), topChunk') + payloadOffset
                  = firstPageAddress + lpbrk' * PageSize]_vars

\* C33: when free(ptr) of a chunk that is not a page chunk returns, the
\* PREV_IN_USE flag of the top chunk is set, and a chunk that was freed
\* directly below the top chunk has been merged into it: no free chunk is
\* left physically adjacent to the top chunk.
C33_NoFreeChunkBelowTop ==
    [][(/\ Sane
        /\ last'.op = "free"
        /\ topChunk' # nullChunkAddress)
       => \A b \in live \ live' :
              (b.kind = "chunk" /\ ChunkLevel(b.arg) /\ chunkOf(b.ptr) \in DOMAIN mem)
                  => /\ topChunk' \in DOMAIN mem'
                     /\ previousInUse(MachineAt(mem'), topChunk')
                     /\ nextPhysicalChunk(Machine(0), chunkOf(b.ptr)) = topChunk
                            => topChunk' <= chunkOf(b.ptr)]_vars

splitRemainedExact(availableSize) ==
    IF availableSize >= physicalSize(Pow2(fastbinMaxOrder))
    THEN 0 - 2 * 2
    ELSE remainedSearch(Pow2(fastbinMaxOrder - 1), availableSize)

\* C35: no chunk size computation wraps modulo 2^16; for splitUseChunk: the
\* remainder size it computes for a chunk of size s and a rounded request
\* r' <= s is a number of 0 .. 65535 and is what the code stores.
C35_SizesDoNotWrap ==
    [][last'.op = "split" =>
         LET availableSize == ClearLow2(first.arg - last'.arg)
         IN  physicalSize(sizeofChunkNodeSmall) <= availableSize =>
                 /\ splitRemainedExact(availableSize) \in 0 .. Half - 1
                 /\ splitRemainedSize(availableSize) = splitRemainedExact(availableSize)]_vars

\* ------------------------------------------------------------------------
\* The frame lists of the slob allocator
\* ------------------------------------------------------------------------
\* the frames of the three lists of an instance
SlobFullFrames(region) == SlobListWalk(mem[slobFullAddr(region)], MaxWalk, {})
SlobPartialFrames(region) == SlobListWalk(mem[slobPartialAddr(region)], MaxWalk, {})
SlobFreeFrames(region) == SlobListWalk(mem[slobSfreeAddr(region)], MaxWalk, {})
SlobLinkedFrames(region) ==
    SlobFullFrames(region) \cup SlobPartialFrames(region) \cup SlobFreeFrames(region)

\* C36: a slabFree of an object of its instance that brings the used count
\* of the frame to 0 releases the frame to the buddy allocator, and the
\* frame is then on none of the lists full, partial and free; every slot a
\* slabAlloc returns lies in a frame that the page allocator accounts as
\* handed out, so none lies in a released frame.
C36_ReleasedFrameUnlinked ==
    [][/\ \A b \in SlobObjects :
             (/\ last'.op = "slobfree"
              /\ hist' # "foreign"
              /\ b.ptr = last'.arg
              /\ b.arg = last'.ret
              /\ frameUsed(Machine(0), FrameOf(b.ptr)) = 1)
             => FrameOf(b.ptr) \notin SlobLinkedFrames(b.arg)'
       /\ \A k \in 0 .. totalPageFrame - 1 :
             (/\ last'.op = "sloballoc"
              /\ hist' # "foreign"
              /\ last'.ret # 0
              /\ FrameOf(last'.ret) = firstPageAddress + k * PageSize)
             => PageHandedOut(firstPageAddress + k * PageSize)']_vars

\* C37: after every slabAlloc and slabFree of a caller that frees the
\* objects of an instance on that instance, the lists agree with the
\* occupancy: a frame on full has used = capacity, a frame on partial has
\* used < capacity, and a frame that holds objects and has a free slot is on
\* partial, where the next slabAlloc finds it.
C37_ListsAgreeWithOccupancy ==
    (last.op \in {"sloballoc", "slobfree"} /\ hist # "foreign") =>
        \A i \in SlobInstances :
            /\ \A f \in SlobFullFrames(i.ptr) :
                   frameUsed(Machine(0), f) = numObjects(Machine(0), i.ptr)
            /\ \A f \in SlobPartialFrames(i.ptr) :
                   frameUsed(Machine(0), f) < numObjects(Machine(0), i.ptr)
            /\ \A b \in SlobObjects :
                   (b.arg = i.ptr /\ frameUsed(Machine(0), FrameOf(b.ptr))
                                         < numObjects(Machine(0), i.ptr))
                       => FrameOf(b.ptr) \in SlobPartialFrames(i.ptr)

\* ------------------------------------------------------------------------
\* A caller that uses its slab objects and frees them where they came from
\* ------------------------------------------------------------------------
\* the caller writes the bytes of an object it holds, as many as it asked
\* slabInit for: the allocator no longer knows the words they lie in
SlobWrite(b) ==
    /\ b \in SlobObjects
    /\ Commit(Disown(Machine(0), b.ptr, b.ptr + AskedSize(b)))
    /\ last' = [op |-> "slobwrite", arg |-> b.ptr, ret |-> b.arg, dup |-> FALSE]
    /\ UNCHANGED <<gba_ewram_size, pageAllocator, fineAllocator, live, first, calls,
                   hist, fresh0>>

NextSlobUse ==
    \/ \E r \in SlobRegions : \E n \in SlobSizes : Sane /\ SlobInit(r, n)
    \/ \E r \in SlobRegions : Sane /\ SlobAlloc(r)
    \/ \E b \in SlobObjects : Sane /\ SlobFree(b.arg, b)
    \/ \E b \in SlobObjects : Sane /\ SlobWrite(b)

SpecSlobUse == InitSlob /\ [][NextSlobUse]_vars

\* the slot indices that the free stack of a frame holds, from the value
\* head of freeHead through the links stored in the slots; a word the
\* allocator does not know reads as hv
RECURSIVE SlobFreeChain(_, _, _, _, _)
SlobFreeChain(hv, region, frame, head, fuel) ==
    IF head = 0 \/ fuel = 0 THEN <<>>
    ELSE <<head - 1>>
           \o SlobFreeChain(hv, region, frame,
                  ReadHalf(Machine(hv),
                           offsetForObject(Machine(0), region, frameSlobs(frame), head - 1)),
                  fuel - 1)

\* C39: for a caller that frees each object once, on the instance it came
\* from, in every frame that holds an object: the slot indices reachable
\* from freeHead through the links stored in the slots are below top and
\* pairwise distinct, the chain ends at 0, none of its slots is allocated,
\* and used = top - the length of the chain.
C39_FreeChainSound ==
    Sane =>
        \A b \in SlobObjects : \A hv \in HavocWords :
            LET frame == FrameOf(b.ptr)
                chain == SlobFreeChain(hv, b.arg, frame,
                                       frameFreeHead(Machine(0), frame), MaxWalk)
            IN  /\ Len(chain) < MaxWalk
                /\ \A i \in 1 .. Len(chain) :
                       /\ chain[i] < frameTop(Machine(0), frame)
                       /\ \A j \in 1 .. Len(chain) : chain[i] = chain[j] => i = j
                       /\ \A c \in SlobObjects :
                              c.ptr # offsetForObject(Machine(0), b.arg, frameSlobs(frame),
                                                      chain[i])
                /\ frameUsed(Machine(0), frame)
                       = frameTop(Machine(0), frame) - Len(chain)

\* ------------------------------------------------------------------------
\* The slob allocator built with deftSlobDeallocate disabled
\* ------------------------------------------------------------------------
\* object sizes of one and of two objects a frame
DemoteSizes == {1012, 2024}

\* GmOsFineAllocatorSlob::deallocate where slobInfo::deftSlobDeallocate is
\* false: an empty frame is demoted
slobDeallocateDemoting(s, region, object) ==
    IF object = 0 THEN s
    ELSE LET frameSize == Pow2(pageSizeShift)
             offset == object - firstPageAddress
         IN  (CHOOSE the \in {
                IF frame < firstPageAddress THEN s
                ELSE (CHOOSE the \in {
                        IF d.ret = 0 THEN d
                        ELSE IF frameEmpty(d, frame) THEN slobDemote(d, region, frame)
                        ELSE d
                        : d \in {deallocateToFrame(s, region, frame, object)} } : TRUE)
                : frame \in {slobFindFrame(s, (offset - (offset % frameSize))
                                               + firstPageAddress)} } : TRUE)

\* both allocators constructed and both storages initialised with one size
\* of DemoteSizes
InitSlobPair ==
    /\ gba_ewram_size \in EwramSizesSlob
    /\ pageAllocator \in PageRegions
    /\ fineAllocator \in MallocRegions
    /\ lpbrk = 0
    /\ hpbrk = 0
    /\ bitmap = {}
    /\ topChunk = nullChunkAddress
    /\ ub = {}
    /\ \E sizes \in {[r \in SlobRegions |-> n] : n \in DemoteSizes} :
         LET r1 == CHOOSE r \in SlobRegions : \A q \in SlobRegions : r <= q
             r2 == CHOOSE r \in SlobRegions : \A q \in SlobRegions : q <= r
             s0 == [mem |-> [a \in BinWords(fineAllocator) |-> nullChunkAddress]
                              @@ [o \in {pageAllocator + 4 + 4 * k :
                                             k \in 0 .. maxPageOrder - 1}
                                     |-> nullPageAddress],
                    lpbrk |-> 0, hpbrk |-> 0, bitmap |-> {},
                    topChunk |-> nullChunkAddress, ub |-> {}, hv |-> 0, ret |-> 0,
                    fuel |-> MaxWalk]
         IN  /\ mem = gba_slobinit(gba_slobinit(s0, r1, sizes[r1]), r2, sizes[r2]).mem
             /\ live = {[kind |-> "slobinst", ptr |-> r, arg |-> sizes[r]] :
                           r \in SlobRegions}
             /\ last = [op |-> "slobinit", arg |-> sizes[r2], ret |-> 1, dup |-> FALSE]
    /\ first = last
    /\ calls = 0
    /\ hist = "allocs"
    /\ fresh0 = 0

\* slobfree(region, b.ptr) of the build that demotes
SlobFreeDemoting(region, b) ==
    /\ \E i \in SlobInstances : i.ptr = region
    /\ b \in SlobObjects
    /\ \E hv \in HavocWords :
         Commit(IF Rd(Machine(hv), slobTypeAddr(region)) = slobNormalTypeId
                THEN slobDeallocateDemoting(Machine(hv), region, b.ptr)
                ELSE Machine(hv))
    /\ live' = IF b.arg = region THEN live \ {b} ELSE live
    /\ last' = [op |-> "slobfree", arg |-> b.ptr, ret |-> region, dup |-> FALSE]
    /\ SlobCall(IF b.arg = region THEN hist ELSE "foreign", -1)
    /\ UNCHANGED <<gba_ewram_size, pageAllocator, fineAllocator>>

NextSlobDemote ==
    \/ \E r \in SlobRegions : Sane /\ SlobAlloc(r)
    \/ \E b \in SlobObjects : Sane /\ SlobFreeDemoting(b.arg, b)

SpecSlobDemote == InitSlobPair /\ [][NextSlobDemote]_vars

\* the build of gbamm.cpp from the same start: two storages of one size
NextSlobPair ==
    \/ \E r \in SlobRegions : Sane /\ SlobAlloc(r)
    \/ \E r \in SlobRegions : \E b \in SlobObjects : Sane /\ SlobFree(r, b)

SpecSlobPair == InitSlobPair /\ [][NextSlobPair]_vars

\* C40: with deftSlobDeallocate disabled at most one frame is linked in the
\* free list of an instance in every reachable state; when a slabFree
\* empties a frame while the free list holds another, the frame with the
\* higher address is the one in free afterwards and the page allocator has
\* taken the other back.
C40_OneFreeFrame ==
    /\ [](Sane => \A r \in SlobRegions : Cardinality(SlobFreeFrames(r)) <= 1)
    /\ [][\A r \in SlobRegions : \A j, k \in 0 .. totalPageFrame - 1 :
            LET held == firstPageAddress + j * PageSize
                demoted == firstPageAddress + k * PageSize
            IN  (/\ Sane /\ Sane'
                 /\ last'.op = "slobfree"
                 /\ last'.ret = r
                 /\ mem[slobSfreeAddr(r)] = held
                 /\ FrameOf(last'.arg) = demoted
                 /\ held # demoted
                 /\ frameUsed(MachineAt(mem'), demoted) = 0)
                => /\ mem'[slobSfreeAddr(r)] = (IF held > demoted THEN held ELSE demoted)
                   /\ ~PageHandedOut(IF held > demoted THEN demoted ELSE held)'
                   /\ PageHandedOut(IF held > demoted THEN held ELSE demoted)']_vars

C40_Witness ==
    /\ Sane
    /\ last.op = "slobfree"
    /\ calls = 4
    /\ frameUsed(Machine(0), FrameOf(last.arg)) = 0
    /\ mem[slobSfreeAddr(last.ret)] \notin {0, FrameOf(last.arg)}
    /\ ~PageHandedOut(FrameOf(last.arg))

\* C38: after every slabAlloc and slabFree every frame that holds an object
\* the caller has not freed satisfies magic = frameAddress XOR
\* magicForType(frameType) XOR (used | (top << 13) | (freeHead << 26)).
C38_MagicOfLiveFrames ==
    (Sane /\ last.op \in {"sloballoc", "slobfree"}) =>
        \A b \in SlobObjects :
            /\ FrameOf(b.ptr) \in DOMAIN mem
            /\ frameMagic(Machine(0), FrameOf(b.ptr))
                   = expectedMagic(Machine(0), FrameOf(b.ptr))

====
